---- MODULE Spec2Model ----
(***************************************************************************)
(* rtz: the geospatial lookup engine.                                      *)
(*                                                                         *)
(* The offline preprocessor turns a feature collection into an item vector *)
(* and a one-degree grid lookup; the runtime loads both behind one-time    *)
(* guards and answers point queries from the grid plus exact containment.  *)
(*                                                                         *)
(* Three query surfaces of the repository are modelled side by side:       *)
(*   "generic"  CanPerformGeoLookup::lookup      (rtz/src/geo/shared.rs)   *)
(*   "osm"      get_timezones                    (rtz/src/geo/tz/osm.rs)   *)
(*   "ned"      get_timezone                     (rtz/src/geo/tz/ned.rs)   *)
(*                                                                         *)
(* Floats are fixed-point: the integer n stands for n / Scale degrees.     *)
(* A geometry is an axis-aligned rectangular polygon <<x1, y1, x2, y2>>    *)
(* in those units.  The globe is bounded: the sweep's ranges, (-180..180)  *)
(* and (-90..90) in the source, are (-MaxLng..MaxLng) and (-MaxLat..MaxLat)*)
(* here, and the fast path's interior, 179 and 89 in the source, stays one *)
(* degree inside them.                                                     *)
(***************************************************************************)
EXTENDS Integers, Sequences, FiniteSets, TLC

VARIABLES
    variant,    \* which query surface this process uses
    features,   \* the GeoJSON feature collection given to the preprocessor
    itemsBin,   \* the items artifact (None until generated)
    lookupBin,  \* the lookup artifact (None until generated)
    TIMEZONES,  \* OnceLock holding the in-memory item vector
    CACHE,      \* OnceLock holding the in-memory cell table
    pc,         \* "idle" | "returned" (a lookup) | "answered" (another call) | "panicked"
    q,          \* the last query point <<xf, yf>>, NoQuery when idle
    path,       \* the return statement the last lookup left by
    result,     \* the ids of the items the last lookup returned
    payload,    \* codec: what is encoded, "items" | "geometry" | "ids" | "lookup"
    original,   \* codec: the value given to the encoder
    buildEndian, \* codec: the byte order of the machine that encodes
    wire,       \* codec: the artifact's bytes (None until encoded)
    tampered,   \* codec: the artifact's bytes were damaged (a byte replaced, the end cut off)
    hostEndian, \* codec: the byte order of the machine that decodes
    decodePath, \* codec: the decode path, "owned" | "borrow"
    address,    \* codec: the address the embedded bytes start at
    outcome,    \* codec: what decode_binary_data ended in (None before)
    document,   \* codec: the GeoJSON document of the decoded items (None before)
    corrupt,    \* threads: the artifacts whose decoding fails
    once,       \* threads: each guard's Once, "incomplete" | "running" | "complete"
    inits,      \* threads: how often each guard's slot was written
    tpc,        \* threads: each thread's position in its lookup
    tguard,     \* threads: the guard each thread is at
    tref,       \* threads: the references each thread has got
    selfContained, \* threads: the build embeds the artifacts (feature "self-contained")
    tstack,     \* threads: the guards whose closures each thread is inside of
    swept,      \* sweep: the item vector the grid is built from
    todo,       \* sweep: the columns x no task has started on
    running,    \* sweep: the row y each started, unfinished task is at
    map,        \* sweep: the concurrent map the tasks insert into
    cache,      \* sweep: the HashMap returned (None until the sweep is over)
    exeModified,        \* web: the modification time of the executable's file
    LAST_MODIFIED_TIME, \* web: OnceLock holding the formatted modification time
    request,    \* web: the request being handled (None between requests)
    response,   \* web: the response to it (None until it is answered)
    seen,       \* web: the If-Modified-Since values the responses so far carried
    force_rebuild, \* build: the feature "force-rebuild" is on
    source,     \* build: the features get_geojson_features_from_source() gives
    timezone_bincode_destination, \* build: the items file (None when it does not exist)
    lookup_bincode_destination,   \* build: the lookup file (None when it does not exist)
    bpc         \* build: "start" | "items" | "lookup" | "done" | "skipped" | "panicked"

mainVars == <<variant, features, itemsBin, lookupBin, TIMEZONES, CACHE, pc, q, path, result>>

codecVars == <<payload, original, buildEndian, wire, tampered, hostEndian, decodePath, address, outcome, document>>

threadVars == <<corrupt, once, inits, tpc, tguard, tref, selfContained, tstack>>

sweepVars == <<swept, todo, running, map, cache>>

webVars == <<exeModified, LAST_MODIFIED_TIME, request, response, seen>>

buildVars == <<force_rebuild, source, timezone_bincode_destination, lookup_bincode_destination, bpc>>

vars == <<mainVars, codecVars, threadVars, sweepVars, webVars, buildVars>>

(***************************************************************************)
(* Bounds of the model.                                                    *)
(***************************************************************************)

\* resolution of the fixed-point floats: units per degree
Scale == 2

\* the sweep covers the longitudes -MaxLng .. MaxLng - 1 (180 in the source)
MaxLng == 2

\* the sweep covers the latitudes -MaxLat .. MaxLat - 1 (90 in the source)
MaxLat == 2

\* the longest feature collection of stacked geometries
MaxFeatures == 2

(***************************************************************************)
(* Program constants.                                                      *)
(***************************************************************************)

I16Min == -32768
I16Max == 32767
TIMEZONE_LIST_LENGTH == 7
NED_LIST_LENGTH == 10

\* an absent file, an empty OnceLock, and their filled counterparts
None == [some |-> FALSE]
Some(v) == [some |-> TRUE, value |-> v]

NoQuery == <<>>

Variants == {"generic", "osm", "ned"}

\* the lookup engine before anything of it has run
MainIdle ==
    /\ variant = "generic"
    /\ features = <<>>
    /\ itemsBin = None
    /\ lookupBin = None
    /\ TIMEZONES = None
    /\ CACHE = None
    /\ pc = "idle"
    /\ q = NoQuery
    /\ path = "none"
    /\ result = <<>>

\* the codec before anything of it has run
CodecIdle ==
    /\ payload = "none"
    /\ original = <<>>
    /\ buildEndian = "none"
    /\ wire = None
    /\ tampered = FALSE
    /\ hostEndian = "none"
    /\ decodePath = "none"
    /\ address = 0
    /\ outcome = None
    /\ document = None

\* the threads before any of them has called
ThreadsIdle ==
    /\ corrupt = {}
    /\ once = [g \in {"CACHE", "TIMEZONES"} |-> "incomplete"]
    /\ inits = [g \in {"CACHE", "TIMEZONES"} |-> 0]
    /\ tpc = <<>>
    /\ tguard = <<>>
    /\ tref = <<>>
    /\ selfContained = TRUE
    /\ tstack = <<>>

\* the sweep before it has started
SweepIdle ==
    /\ swept = <<>>
    /\ todo = {}
    /\ running = <<>>
    /\ map = <<>>
    /\ cache = None

\* the web server before it is up
WebIdle ==
    /\ exeModified = [secs |-> 0, nanos |-> 0]
    /\ LAST_MODIFIED_TIME = None
    /\ request = None
    /\ response = None
    /\ seen = {}

\* the build script before it has run
BuildIdle ==
    /\ force_rebuild = FALSE
    /\ source = <<>>
    /\ timezone_bincode_destination = None
    /\ lookup_bincode_destination = None
    /\ bpc = "none"

\* the parts of the state the lookup engine's actions leave alone
offMain == <<codecVars, threadVars, sweepVars, webVars, buildVars>>

\* the parts of the state the codec's actions leave alone
offCodec == <<mainVars, threadVars, sweepVars, webVars, buildVars>>

\* the parts of the state the threads' actions leave alone
offThreads == <<variant, features, itemsBin, lookupBin, pc, q, path, result, codecVars, sweepVars, webVars, buildVars>>

\* the parts of the state the sweep's actions leave alone
offSweep == <<mainVars, codecVars, threadVars, webVars, buildVars>>

\* the parts of the state the build script's actions leave alone
offBuild == <<mainVars, codecVars, threadVars, sweepVars, webVars>>

(***************************************************************************)
(* Floats, cells and the geometric primitives of the geo crate.            *)
(***************************************************************************)

\* d degrees as a Float
Deg(d) == d * Scale

\* the bounds of the fast path's interior: one degree inside the sweep's ranges
FastLng == MaxLng - 1

FastLat == MaxLat - 1

\* fault seed: the fraction is cut off, which rounds toward zero
Truncate(f) == IF f >= 0 THEN f \div Scale ELSE -((-f) \div Scale)

\* Float::floor, in degrees (\div rounds toward minus infinity)
Floor(f) == f \div Scale

\* `f as i16` of a floored float: Rust's float-to-int cast saturates
AsI16(n) == IF n < I16Min THEN I16Min ELSE IF n > I16Max THEN I16Max ELSE n

\* `id as RoundInt` of a usize id: wraps to 16 bits, two's complement
AsRoundInt(n) == LET m == n % 65536 IN IF m > I16Max THEN m - 65536 ELSE m

\* `id as Id` of a usize id: wraps to 32 bits; every integer TLC can hold is
\* below 2^31, where the cast changes nothing
AsId(n) == n

\* Rect::new(Coord {x, y}, Coord {x + 1.0, y + 1.0}) for the cell (x, y)
CellRect(x, y) == <<Deg(x), Deg(y), Deg(x) + Deg(1), Deg(y) + Deg(1)>>

\* fault seed: only overlapping interiors count, a shared edge or corner does not
IntersectsInterior(g, r) == g[1] < r[3] /\ r[1] < g[3] /\ g[2] < r[4] /\ r[2] < g[4]

\* geo::Intersects between a polygon and a rectangle: closed sets that share a point
Intersects(g, r) == g[1] <= r[3] /\ r[1] <= g[3] /\ g[2] <= r[4] /\ r[2] <= g[4]

\* geo::Contains of a polygon and a coordinate: the point lies in the interior
Contains(g, p) == g[1] < p[1] /\ p[1] < g[3] /\ g[2] < p[2] /\ p[2] < g[4]

\* fault seed: an end-inclusive range, (-180..=180)
LngsInclusive == (-MaxLng) .. MaxLng

\* (-180..180) and (-90..90), end-exclusive ranges
Lngs == (-MaxLng) .. (MaxLng - 1)

\* fault seed: an end-inclusive range, (-90..=90)
LatsInclusive == (-MaxLat) .. MaxLat

Lats == (-MaxLat) .. (MaxLat - 1)

\* A HashMap<(i16, i16), V> is held curried, table[x][y]: its keys are the
\* pairs (x, y) with x in DOMAIN table and y in DOMAIN table[x]
Keys(table) == UNION { { <<x, y>> : y \in DOMAIN table[x] } : x \in DOMAIN table }

\* HashMap::contains_key / HashMap::get
HasKey(table, c) == c[1] \in DOMAIN table /\ c[2] \in DOMAIN table[c[1]]

Get(table, c) == table[c[1]][c[2]]

(***************************************************************************)
(* Preprocessor: items from features, grid from items.                     *)
(***************************************************************************)

\* simplify_geometry: Visvalingam-Whyatt removes a vertex only when its triangle
\* is smaller than epsilon (1e-5 .. 1e-3); every rectangle of the model has
\* vertex triangles of at least (1/Scale)^2 / 2, so all four vertices stay
simplify_geometry(geometry) == geometry

\* fault seed: ids that count from one
ItemFromOneBased(id, feature) == [id |-> id + 1, geometry |-> simplify_geometry(feature)]

\* T::from((id, feature)): the id is the pair's first component
ItemFrom(id, feature) == [id |-> id, geometry |-> simplify_geometry(feature)]

\* ConcreteVec::from(FeatureCollection): features.into_iter().enumerate().map(T::from)
ConcreteVecFrom(fc) == [k \in 1 .. Len(fc) |-> ItemFrom(k - 1, fc[k])]

\* get_items_from_features / get_timezones_from_features
get_items_from_features(fc) == ConcreteVecFrom(fc)

\* fault seed: the sweep stores the id after the intersecting item's
IntersectedShifted(items, x, y) ==
    LET rect == CellRect(x, y)
        hit == SelectSeq(items, LAMBDA g : Intersects(g.geometry, rect))
    IN  [k \in 1 .. Len(hit) |-> hit[k].id + 1]

\* fault seed: the sweep puts each intersecting item's id in front of the list
IntersectedNewestFirst(items, x, y) ==
    LET rect == CellRect(x, y)
        hit == SelectSeq(items, LAMBDA g : Intersects(g.geometry, rect))
    IN  [k \in 1 .. Len(hit) |-> hit[Len(hit) + 1 - k].id]

\* the body of the sweep for one cell: the ids, in item order, of the items
\* whose geometry intersects the cell's unit rectangle
Intersected(items, x, y) ==
    LET rect == CellRect(x, y)
        hit == SelectSeq(items, LAMBDA g : Intersects(g.geometry, rect))
    IN  [k \in 1 .. Len(hit) |-> hit[k].id]

\* get_lookup_from_geometries: one insert per cell of the sweep, ids cast to Id (u32)
get_lookup_from_geometries(items) ==
    [x \in Lngs |-> [y \in Lats |->
        LET ids == Intersected(items, x, y)
        IN  [k \in 1 .. Len(ids) |-> AsId(ids[k])]]]

\* get_cache_from_timezones: the same sweep, ids cast to RoundInt (i16)
get_cache_from_timezones(items) ==
    [x \in Lngs |-> [y \in Lats |->
        LET ids == Intersected(items, x, y)
        IN  [k \in 1 .. Len(ids) |-> AsRoundInt(ids[k])]]]

\* the grid builder each query surface's artifact comes from
BuildLookup(v, items) ==
    IF v = "generic" THEN get_lookup_from_geometries(items)
    ELSE get_cache_from_timezones(items)

(***************************************************************************)
(* Runtime: loading the artifacts into the process-wide structures.        *)
(***************************************************************************)

\* value.get(i).cloned().unwrap_or(-1) for i in 0 .. n-1
PadIds(value, n) == [i \in 1 .. n |-> IF i <= Len(value) THEN value[i] ELSE -1]

\* i16_vec_to_tomezoneids: panics on a list longer than TIMEZONE_LIST_LENGTH
i16_vec_to_tomezoneids(value) == PadIds(value, TIMEZONE_LIST_LENGTH)

TimezoneIdsPanics(value) == Len(value) > TIMEZONE_LIST_LENGTH

\* the array literal of ned.rs get_cache: ten slots, no length check
NedTimezoneIds(value) == PadIds(value, NED_LIST_LENGTH)

\* does the closure of get_cache / get_mem_lookup panic on this artifact
CacheInitPanics(v, bin) ==
    v = "osm" /\ \E x \in DOMAIN bin : \E y \in DOMAIN bin[x] : TimezoneIdsPanics(bin[x][y])

\* the table the closure of get_cache / get_mem_lookup returns
\* (.into_iter().map(|(key, value)| (key, <array of value>)).collect())
CacheInitValue(v, bin) ==
    IF v = "osm"
    THEN [x \in DOMAIN bin |-> [y \in DOMAIN bin[x] |-> i16_vec_to_tomezoneids(bin[x][y])]]
    ELSE IF v = "ned"
    THEN [x \in DOMAIN bin |-> [y \in DOMAIN bin[x] |-> NedTimezoneIds(bin[x][y])]]
    ELSE bin

\* fault seed: the decoded vector misses its last item
ItemsInitShort(bin) == SubSeq(bin, 1, Len(bin) - 1)

\* the vector the closure of get_timezones / get_mem_items returns
ItemsInitValue(bin) == bin

\* fault seed: a guard whose value is taken by the first access
take_or_init(cell, init) == IF cell.some THEN Some(<<>>) ELSE Some(init)

\* OnceLock::get_or_init: the closure runs only while the cell is empty
get_or_init(cell, init) == IF cell.some THEN cell ELSE Some(init)

(***************************************************************************)
(* Runtime: the query path.                                                *)
(***************************************************************************)

\* whether the query surface has the one-candidate fast path
FastPathFlag(v) == v \in {"osm", "ned"}

\* MapIntoTimezones::map_timezones: skip -1, skip ids that timezones.get misses
map_timezones(value, timezones) ==
    SelectSeq(value, LAMBDA id : id # -1 /\ id >= 0 /\ id < Len(timezones))

\* MapIntoItems::map_into_items indexes items[id]: out of range is a panic
MapIntoItemsPanics(value, items) ==
    \E k \in 1 .. Len(value) : value[k] >= Len(items)

map_into_items(value, items) == value

\* the candidates of a cell as indices into the item vector
Suggestions(v, value, items) ==
    IF v = "generic" THEN map_into_items(value, items)
    ELSE map_timezones(value, items)

\* fault seed: the bounds of the interior are included
InInteriorInclusive(p) ==
    /\ p[1] >= Deg(-FastLng) /\ p[1] <= Deg(FastLng)
    /\ p[2] >= Deg(-FastLat) /\ p[2] <= Deg(FastLat)

\* xf > -179. && xf < 179. && yf > -89. && yf < 89.
InInterior(p) ==
    /\ p[1] > Deg(-FastLng) /\ p[1] < Deg(FastLng)
    /\ p[2] > Deg(-FastLat) /\ p[2] < Deg(FastLat)

\* the condition of the early return
TakesFastPath(v, cands, p) == FastPathFlag(v) /\ Len(cands) = 1 /\ InInterior(p)

\* fault seed: the filter stops at the first match
FilterFirstOnly(cands, items, p) ==
    LET m == SelectSeq(cands, LAMBDA i : Contains(items[i + 1].geometry, p))
    IN  IF m = <<>> THEN <<>> ELSE <<m[1]>>

\* .filter(|i| i.geometry().contains(&Coord {x: xf, y: yf}))
FilterContains(cands, items, p) ==
    SelectSeq(cands, LAMBDA i : Contains(items[i + 1].geometry, p))

\* .find(...) of get_timezone: the first match, if any
FindContains(cands, items, p) ==
    LET m == FilterContains(cands, items, p)
    IN  IF m = <<>> THEN <<>> ELSE <<m[1]>>

\* the ids (t.id) of a sequence of item references
IdsOf(refs, items) == [k \in 1 .. Len(refs) |-> items[refs[k] + 1].id]

\* fault seed: the key's components are swapped
QueryCellSwapped(p) == <<AsI16(Floor(p[2])), AsI16(Floor(p[1]))>>

\* the cell a query consults
QueryCell(p) == <<AsI16(Floor(p[1])), AsI16(Floor(p[2]))>>

\* lookup / get_timezones / get_timezone once the cell's candidates are known
Answer(v, cands, items, p) ==
    IF TakesFastPath(v, cands, p)
    THEN [path |-> "fast", refs |-> cands]
    ELSE [path |-> "filter",
          refs |-> IF v = "ned" THEN FindContains(cands, items, p)
                   ELSE FilterContains(cands, items, p)]

\* lookup_slow / get_timezones_via_full_lookup / get_timezone_via_full_lookup
lookup_slow(v, items, p) ==
    LET all == [k \in 1 .. Len(items) |-> k - 1]
    IN  IdsOf(IF v = "ned" THEN FindContains(all, items, p)
              ELSE FilterContains(all, items, p), items)

(***************************************************************************)
(* Inputs.                                                                 *)
(***************************************************************************)

\* the extents a geometry takes along one axis of half-width m degrees: the
\* whole axis, one cell, a span that ends off the integer lattice (one Float
\* step inside the cells -2 and 0), a span across the edge
Spans(m) ==
    { <<Deg(-m), Deg(m)>>,
      <<Deg(0), Deg(1)>>,
      <<Deg(-2) + 1, Deg(1) - 1>>,
      <<Deg(m - 1), Deg(m + 1)>> }

\* the geometry universe
Geometries == { <<xs[1], ys[1], xs[2], ys[2]>> : xs \in Spans(MaxLng), ys \in Spans(MaxLat) \ {<<Deg(MaxLat - 1), Deg(MaxLat + 1)>>} }

Unit == <<Deg(0), Deg(0), Deg(1), Deg(1)>>

Neighbour == <<Deg(1), Deg(0), Deg(2), Deg(1)>>

World == <<Deg(-MaxLng), Deg(-MaxLat), Deg(MaxLng), Deg(MaxLat)>>

OffGrid == <<Deg(-2) + 1, Deg(-2) + 1, Deg(1) - 1, Deg(1) - 1>>

\* the geometries that longer collections stack on one another
Stacked == {World, Unit, OffGrid}

Copies(g, n) == [k \in 1 .. n |-> g]

SeqsUpTo(S, n) == UNION { [1 .. k -> S] : k \in 0 .. n }

\* the feature collections the preprocessor is run on: none or one geometry of
\* the universe, every collection of up to MaxFeatures stacked geometries, a
\* cell with one candidate more than a TimezoneIds array holds, and a cell
\* whose eleventh candidate is the only one that contains the cell's centre
Corpora ==
    SeqsUpTo(Geometries, 1)
      \cup SeqsUpTo(Stacked, MaxFeatures)
      \cup { Copies(Unit, TIMEZONE_LIST_LENGTH + 1),
             Copies(Neighbour, NED_LIST_LENGTH) \o <<Unit>> }

\* longitudes of the query points: outside the sweep, on its edge, on the
\* fast path's bounds, inside, and beyond the i16 range (65536 + 1/Scale)
ProbeLngs ==
    { Deg(-MaxLng) - 1, Deg(-MaxLng), Deg(-FastLng), Deg(0) - 1, Deg(0),
      Deg(0) + 1, Deg(FastLng), Deg(MaxLng) - 1, Deg(MaxLng), Deg(65536) + 1 }

ProbeLats ==
    { Deg(-65536) + 1, Deg(-MaxLat), Deg(0) - 1, Deg(0) + 1, Deg(MaxLat) - 1, Deg(MaxLat) }

Probes == ProbeLngs \X ProbeLats

(***************************************************************************)
(* The state machine.                                                      *)
(***************************************************************************)

Init ==
    /\ variant \in Variants
    /\ features \in Corpora
    /\ itemsBin = None
    /\ lookupBin = None
    /\ TIMEZONES = None
    /\ CACHE = None
    /\ pc = "idle"
    /\ q = NoQuery
    /\ path = "none"
    /\ result = <<>>
    /\ CodecIdle
    /\ ThreadsIdle
    /\ SweepIdle
    /\ WebIdle
    /\ BuildIdle

\* generate_bincodes: the items artifact from the features, then the lookup
\* artifact from the items artifact read back
GenerateBincodes ==
    /\ ~itemsBin.some
    /\ LET items == get_items_from_features(features)
       IN  /\ itemsBin' = Some(items)
           /\ lookupBin' = Some(BuildLookup(variant, items))
    /\ UNCHANGED <<variant, features, TIMEZONES, CACHE, pc, q, path, result>>
    /\ UNCHANGED offMain

\* the artifacts are embedded at compile time: the runtime exists only after them
Running == itemsBin.some /\ lookupBin.some

\* get_timezones() / get_mem_items(), called on its own
GetTimezones ==
    /\ Running /\ pc = "idle"
    /\ ~TIMEZONES.some
    /\ TIMEZONES' = get_or_init(TIMEZONES, ItemsInitValue(itemsBin.value))
    /\ UNCHANGED <<variant, features, itemsBin, lookupBin, CACHE, pc, q, path, result>>
    /\ UNCHANGED offMain

\* get_cache() / get_mem_lookup(), called on its own
GetCache ==
    /\ Running /\ pc = "idle"
    /\ ~CACHE.some
    /\ IF CacheInitPanics(variant, lookupBin.value)
       THEN /\ pc' = "panicked"
            /\ path' = "init"
            /\ UNCHANGED CACHE
       ELSE /\ CACHE' = get_or_init(CACHE, CacheInitValue(variant, lookupBin.value))
            /\ UNCHANGED <<pc, path>>
    /\ UNCHANGED <<variant, features, itemsBin, lookupBin, TIMEZONES, q, result>>
    /\ UNCHANGED offMain

\* lookup(xf, yf) / get_timezones(xf, yf) / get_timezone(xf, yf): floor to the
\* cell, fetch the table (first touch initializes it, or panics and leaves the
\* guard empty), return empty on a missing key, map the ids to items (first
\* touch initializes the vector), then the fast path or the containment filter
LookupCall(p) ==
    /\ CACHE' = IF ~CACHE.some /\ CacheInitPanics(variant, lookupBin.value)
                THEN CACHE
                ELSE get_or_init(CACHE, CacheInitValue(variant, lookupBin.value))
    /\ q' = p
    /\ IF ~CACHE'.some
       THEN /\ pc' = "panicked" /\ path' = "init" /\ result' = <<>>
            /\ UNCHANGED TIMEZONES
       ELSE IF ~HasKey(CACHE'.value, QueryCell(p))
       THEN /\ pc' = "returned" /\ path' = "absent" /\ result' = <<>>
            /\ UNCHANGED TIMEZONES
       ELSE /\ TIMEZONES' = get_or_init(TIMEZONES, ItemsInitValue(itemsBin.value))
            /\ LET value == Get(CACHE'.value, QueryCell(p))
                   items == TIMEZONES'.value
               IN  IF variant = "generic" /\ MapIntoItemsPanics(value, items)
                   THEN /\ pc' = "panicked" /\ path' = "index" /\ result' = <<>>
                   ELSE LET cands == Suggestions(variant, value, items)
                            a == Answer(variant, cands, items, p)
                        IN  /\ pc' = "returned"
                            /\ path' = a.path
                            /\ result' = IdsOf(a.refs, items)
    /\ UNCHANGED <<variant, features, itemsBin, lookupBin>>

\* a lookup called on its own, with any query point
Lookup ==
    /\ Running /\ pc = "idle"
    /\ \E p \in Probes : LookupCall(p)
    /\ UNCHANGED offMain

\* lookup_slow(xf, yf) / get_timezones_via_full_lookup: the containment
\* filter over the whole item vector (first touch initializes it)
LookupSlow ==
    /\ Running /\ pc = "idle"
    /\ TIMEZONES' = get_or_init(TIMEZONES, ItemsInitValue(itemsBin.value))
    /\ \E p \in Probes :
         /\ q' = p
         /\ result' = lookup_slow(variant, TIMEZONES'.value, p)
    /\ pc' = "answered"
    /\ path' = "lookup_slow"
    /\ UNCHANGED <<variant, features, itemsBin, lookupBin, CACHE>>
    /\ UNCHANGED offMain

\* get_lookup_suggestions(x, y): the candidates of a cell, None on a missing
\* key (first touch initializes the table, then the vector)
GetLookupSuggestions ==
    /\ Running /\ pc = "idle"
    /\ variant = "generic"
    /\ CACHE' = get_or_init(CACHE, CacheInitValue(variant, lookupBin.value))
    /\ \E p \in Probes :
         /\ q' = p
         /\ IF ~HasKey(CACHE'.value, QueryCell(p))
            THEN /\ pc' = "answered" /\ path' = "absent" /\ result' = <<>>
                 /\ UNCHANGED TIMEZONES
            ELSE /\ TIMEZONES' = get_or_init(TIMEZONES, ItemsInitValue(itemsBin.value))
                 /\ LET value == Get(CACHE'.value, QueryCell(p))
                        items == TIMEZONES'.value
                    IN  IF MapIntoItemsPanics(value, items)
                        THEN /\ pc' = "panicked" /\ path' = "index" /\ result' = <<>>
                        ELSE /\ pc' = "answered"
                             /\ path' = "suggestions"
                             /\ result' = IdsOf(map_into_items(value, items), items)
    /\ UNCHANGED <<variant, features, itemsBin, lookupBin>>
    /\ UNCHANGED offMain

\* memory_data_to_geojson(): one feature per item of the vector, in order
\* (first touch initializes the vector); result keeps the ids of the items
\* rendered, the document itself is ToGeoJson's in the codec's part
MemoryDataToGeoJson ==
    /\ Running /\ pc = "idle"
    /\ variant = "generic"
    /\ TIMEZONES' = get_or_init(TIMEZONES, ItemsInitValue(itemsBin.value))
    /\ result' = [k \in 1 .. Len(TIMEZONES'.value) |-> TIMEZONES'.value[k].id]
    /\ pc' = "answered"
    /\ path' = "to_geojson"
    /\ UNCHANGED <<variant, features, itemsBin, lookupBin, CACHE, q>>
    /\ UNCHANGED offMain

\* the caller takes the outcome; the next call starts from the same statics
Return ==
    /\ pc \in {"returned", "answered", "panicked"}
    /\ pc' = "idle"
    /\ q' = NoQuery
    /\ path' = "none"
    /\ result' = <<>>
    /\ UNCHANGED <<variant, features, itemsBin, lookupBin, TIMEZONES, CACHE>>
    /\ UNCHANGED offMain

Next ==
    \/ GenerateBincodes
    \/ GetTimezones
    \/ GetCache
    \/ Lookup
    \/ LookupSlow
    \/ GetLookupSuggestions
    \/ MemoryDataToGeoJson
    \/ Return

Spec == Init /\ [][Next]_vars

(***************************************************************************)
(* The artifact codec (rtz-core/src/geo/shared.rs).                        *)
(*                                                                         *)
(* An artifact is a sequence of bytes.  bincode's legacy configuration     *)
(* writes every usize as a fixed 8-byte word in the configured byte order; *)
(* a Float is 4 bytes (f32, the default precision) and an Id is 4 bytes.   *)
(* The bit pattern of a float is modelled by the two's complement of its   *)
(* fixed-point integer: like the IEEE pattern it is one-to-one.            *)
(* A decoded word of 2^31 or more is represented by -1.                    *)
(***************************************************************************)

\* bincode::config::legacy(): fixed-width integers, usize written as u64
UsizeSize == 8

\* std::mem::size_of::<Float>() with Float = f32
FloatSize == 4

\* std::mem::size_of::<Id>() with Id = u32
IdSize == 4

\* std::mem::size_of::<RoundDegree>() with RoundDegree = i16
RoundDegreeSize == 2

\* std::mem::align_of::<Float>()
FloatAlign == FloatSize

\* std::mem::align_of::<Id>()
IdAlign == IdSize

Endians == {"little", "big"}

\* byte k (0 = least significant) of the two's complement of n
ByteOf(n, k) == IF k < 4 THEN (n \div (256 ^ k)) % 256 ELSE IF n < 0 THEN 255 ELSE 0

\* the size bytes of n in the byte order e
ToBytes(n, size, e) ==
    [i \in 1 .. size |-> ByteOf(n, IF e = "little" THEN i - 1 ELSE size - i)]

\* the bytes of w from least to most significant, read in the byte order e
Significance(w, e) == [i \in 1 .. Len(w) |-> IF e = "little" THEN w[i] ELSE w[Len(w) + 1 - i]]

\* an unsigned word read in the byte order e; -1 stands for 2^31 and above
UnsignedFromBytes(w, e) ==
    LET s == Significance(w, e)
    IN  IF s[4] >= 128 \/ \E i \in 5 .. Len(w) : s[i] # 0
        THEN -1
        ELSE s[1] + 256 * s[2] + 65536 * s[3] + 16777216 * s[4]

\* a float's four bytes read in the byte order e
FloatFromBytes(w, e) ==
    LET s == Significance(w, e)
    IN  s[1] + 256 * s[2] + 65536 * s[3] + 16777216 * (IF s[4] >= 128 THEN s[4] - 256 ELSE s[4])

RECURSIVE Concat(_)
\* the concatenation of a sequence of byte sequences
Concat(parts) == IF parts = <<>> THEN <<>> ELSE Head(parts) \o Concat(Tail(parts))

\* get_global_bincode_config(): the byte order of the machine the code is
\* compiled for; nothing of it is written to the artifact
get_global_bincode_config(endian) == endian

\* usize::encode
usize_encode(n, e) == ToBytes(n, UsizeSize, e)

\* Float::encode
Float_encode(f, e) == ToBytes(f, FloatSize, e)

\* Id::encode
Id_encode(id, e) == ToBytes(id, IdSize, e)

\* RoundDegree::encode
RoundDegree_encode(d, e) == ToBytes(d, RoundDegreeSize, e)

\* fault seed: the string's bytes go out as they are
pad_string_none(string) == string

\* fault seed: the string is padded to half the alignment
pad_string_half_alignment(string) ==
    LET alignment == FloatAlign \div 2
        padding == alignment - (Len(string) % alignment)
    IN  string \o [i \in 1 .. padding |-> 0]

\* pad_string_alignment: the bytes of the string, then alignment - (len %
\* alignment) zero bytes (a whole alignment of them when len is a multiple)
pad_string_alignment(string) ==
    LET alignment == FloatAlign
        padding == alignment - (Len(string) % alignment)
    IN  string \o [i \in 1 .. padding |-> 0]

\* Vec<u8>::encode: the length, then the bytes
bytes_encode(data, e) == usize_encode(Len(data), e) \o data

\* impl Encode for EncodableString
EncodableString_encode(string, e) ==
    LET data == pad_string_alignment(string)
    IN  bytes_encode(data, e)

\* the x and y of every point of a ring
points_encode(ring, e) ==
    Concat([k \in 1 .. Len(ring) |-> Float_encode(ring[k][1], e) \o Float_encode(ring[k][2], e)])

\* encode_poly: exterior length and points, interior count, every interior's
\* length and points
encode_poly(polygon, e) ==
    usize_encode(Len(polygon.exterior), e) \o points_encode(polygon.exterior, e)
        \o usize_encode(Len(polygon.interiors), e)
        \o Concat([k \in 1 .. Len(polygon.interiors) |->
                     usize_encode(Len(polygon.interiors[k]), e)
                         \o points_encode(polygon.interiors[k], e)])

\* fault seed: an encoder that writes every variant
EncodableGeometry_encode_anything(geometry) == FALSE

\* impl Encode for EncodableGeometry panics on every other variant
EncodableGeometry_encode_panics(geometry) == geometry.variant \notin {"Polygon", "MultiPolygon"}

\* impl Encode for EncodableGeometry: 0 and one polygon, or 1, the count and
\* the polygons
EncodableGeometry_encode(geometry, e) ==
    IF geometry.variant = "Polygon"
    THEN usize_encode(0, e) \o encode_poly(geometry.polygons[1], e)
    ELSE usize_encode(1, e) \o usize_encode(Len(geometry.polygons), e)
            \o Concat([k \in 1 .. Len(geometry.polygons) |-> encode_poly(geometry.polygons[k], e)])

\* derive(Encode) for OsmTimezone: id, identifier, geometry
OsmTimezone_encode(item, e) ==
    usize_encode(item.id, e) \o EncodableString_encode(item.identifier, e)
        \o EncodableGeometry_encode(item.geometry, e)

\* derive(Encode) for ConcreteVec: the length, then the items
ConcreteVec_encode(items, e) ==
    usize_encode(Len(items), e) \o Concat([k \in 1 .. Len(items) |-> OsmTimezone_encode(items[k], e)])

\* impl Encode for EncodableIds: the length, then the ids
EncodableIds_encode(ids, e) ==
    usize_encode(Len(ids), e) \o Concat([k \in 1 .. Len(ids) |-> Id_encode(ids[k], e)])

\* HashMap<RoundLngLat, EncodableIds>::encode: the length, then every entry's
\* key (x, y) and ids, in the map's iteration order
HashMap_encode(entries, e) ==
    usize_encode(Len(entries), e)
        \o Concat([k \in 1 .. Len(entries) |->
                     RoundDegree_encode(entries[k].key[1], e)
                         \o RoundDegree_encode(entries[k].key[2], e)
                         \o EncodableIds_encode(entries[k].ids, e)])

(***************************************************************************)
(* Decoding.  A decoder reads bytes from position pos (the number of bytes *)
(* consumed so far) and ends in one of                                     *)
(*   Ok(value, pos)   the value and the new position,                      *)
(*   Err(error)       a bincode DecodeError,                               *)
(*   Panic(message)   a panic.                                             *)
(* The field ub of an Ok tells whether the decoder built a Vec over bytes  *)
(* whose address is not a multiple of the element's alignment.  The field  *)
(* freed of an Err or a Panic tells whether the failure dropped a Vec that *)
(* Vec::from_raw_parts had built over the input's bytes.                   *)
(***************************************************************************)

Ok(v, pos, ub) == [kind |-> "ok", value |-> v, pos |-> pos, ub |-> ub]

Err(error) == [kind |-> "error", error |-> error, freed |-> FALSE]

Panic(message) == [kind |-> "panic", message |-> message, freed |-> FALSE]

\* some ring of rings has points: borrowed, it is a Vec of capacity > 0 over
\* the input's bytes
HoldsRing(rings) == \E k \in 1 .. Len(rings) : rings[k] # <<>>

PolygonHolds(polygon) == polygon.exterior # <<>> \/ HoldsRing(polygon.interiors)

GeometryHolds(geometry) == \E k \in 1 .. Len(geometry.polygons) : PolygonHolds(geometry.polygons[k])

\* the early return of ? (or a panic) drops the locals: a Vec made by
\* Vec::from_raw_parts over the input's bytes is deallocated as if the
\* allocator had handed it out
Unwind(r, borrow, held) ==
    IF r.kind # "ok" /\ borrow /\ held THEN [r EXCEPT !.freed = TRUE] ELSE r

\* SliceReader: n more bytes are there
HasBytes(bytes, pos, n) == pos + n <= Len(bytes)

\* SliceReader: len more elements of size bytes each are there
HasItems(bytes, pos, len, size) == len <= (Len(bytes) - pos) \div size

\* usize::decode
usize_decode(bytes, pos, e) ==
    IF ~HasBytes(bytes, pos, UsizeSize)
    THEN Err("UnexpectedEnd")
    ELSE Ok(UnsignedFromBytes(SubSeq(bytes, pos + 1, pos + UsizeSize), e), pos + UsizeSize, FALSE)

\* Polygon::new closes a ring that is not closed
Close(ring) == IF ring # <<>> /\ ring[1] # ring[Len(ring)] THEN Append(ring, ring[1]) ELSE ring

\* Polygon::new
PolygonNew(exterior, interiors) ==
    [exterior |-> Close(exterior), interiors |-> [k \in 1 .. Len(interiors) |-> Close(interiors[k])]]

\* len coordinate pairs read from whole bytes at pos
PointsAt(bytes, pos, len, e) ==
    [k \in 1 .. len |->
        <<FloatFromBytes(SubSeq(bytes, pos + (k - 1) * 2 * FloatSize + 1,
                                pos + (k - 1) * 2 * FloatSize + FloatSize), e),
          FloatFromBytes(SubSeq(bytes, pos + (k - 1) * 2 * FloatSize + FloatSize + 1,
                                pos + k * 2 * FloatSize), e)>>]

\* the loop of decode_poly: Float::decode for x and y, len times; the input
\* may end inside the run
owned_points(bytes, pos, len, e) ==
    IF len < 0
    THEN Panic("capacity overflow")
    ELSE IF ~HasItems(bytes, pos, len, 2 * FloatSize)
    THEN Err("UnexpectedEnd")
    ELSE Ok(PointsAt(bytes, pos, len, e), pos + len * 2 * FloatSize, FALSE)

\* take_bytes(len * size_of::<Float>() * 2), then Vec::from_raw_parts over the
\* taken bytes: the machine's own byte order, no check of the address
borrowed_points(bytes, pos, len, e, base) ==
    IF len < 0 \/ ~HasItems(bytes, pos, len, 2 * FloatSize)
    THEN Err("UnexpectedEnd")
    ELSE Ok(PointsAt(bytes, pos, len, e), pos + len * 2 * FloatSize,
            len > 0 /\ (base + pos) % FloatAlign # 0)

\* the one element of a singleton set: in { F(r) : r \in {E} } the value of
\* E is computed once and r stands for it in F
Only(S) == CHOOSE v \in S : TRUE

\* one ring: its length, then its points
ring_decode(bytes, pos, e, borrow, base) ==
    Only({ IF len.kind # "ok" THEN len
           ELSE IF borrow THEN borrowed_points(bytes, len.pos, len.value, e, base)
           ELSE owned_points(bytes, len.pos, len.value, e)
           : len \in {usize_decode(bytes, pos, e)} })

RECURSIVE rings_decode(_, _, _, _, _, _, _)
\* the loop over the interiors: n more rings after those of acc
rings_decode(bytes, pos, e, borrow, base, n, acc) ==
    IF n = 0 THEN acc
    ELSE Only({ IF ring.kind # "ok" THEN Unwind(ring, borrow, HoldsRing(acc.value))
                ELSE rings_decode(bytes, ring.pos, e, borrow, base, n - 1,
                                  Ok(Append(acc.value, ring.value), ring.pos, acc.ub \/ ring.ub))
                : ring \in {ring_decode(bytes, pos, e, borrow, base)} })

\* the interiors of a polygon whose exterior is read: their count
\* (Vec::with_capacity of it), then the rings
interiors_decode(bytes, exterior, e, borrow, base) ==
    Only({ IF interior_len.kind # "ok" THEN interior_len
           ELSE IF interior_len.value < 0 THEN Panic("capacity overflow")
           ELSE rings_decode(bytes, interior_len.pos, e, borrow, base, interior_len.value,
                             Ok(<<>>, interior_len.pos, exterior.ub))
           : interior_len \in {usize_decode(bytes, exterior.pos, e)} })

\* decode_poly (borrow = FALSE) and borrow_decode_poly (borrow = TRUE)
decode_poly(bytes, pos, e, borrow, base) ==
    Only({ IF exterior.kind # "ok" THEN exterior
           ELSE Only({ IF interiors.kind # "ok"
                       THEN Unwind(interiors, borrow, exterior.value # <<>>)
                       ELSE Ok(PolygonNew(exterior.value, interiors.value),
                               interiors.pos, interiors.ub)
                       : interiors \in {interiors_decode(bytes, exterior, e, borrow, base)} })
           : exterior \in {ring_decode(bytes, pos, e, borrow, base)} })

RECURSIVE polys_decode(_, _, _, _, _, _, _)
\* the loop over the polygons of a multi-polygon
polys_decode(bytes, pos, e, borrow, base, n, acc) ==
    IF n = 0 THEN acc
    ELSE Only({ IF polygon.kind # "ok"
                THEN Unwind(polygon, borrow, \E k \in 1 .. Len(acc.value) : PolygonHolds(acc.value[k]))
                ELSE polys_decode(bytes, polygon.pos, e, borrow, base, n - 1,
                                  Ok(Append(acc.value, polygon.value), polygon.pos,
                                     acc.ub \/ polygon.ub))
                : polygon \in {decode_poly(bytes, pos, e, borrow, base)} })

\* the arm 0 of the match: one polygon
polygon_arm(bytes, pos, e, borrow, base) ==
    Only({ IF polygon.kind # "ok" THEN polygon
           ELSE Ok([variant |-> "Polygon", polygons |-> <<polygon.value>>],
                   polygon.pos, polygon.ub)
           : polygon \in {decode_poly(bytes, pos, e, borrow, base)} })

\* the arm 1 of the match: the count (Vec::with_capacity of it), then the
\* polygons
multi_polygon_arm(bytes, pos, e, borrow, base) ==
    Only({ IF polygon_len.kind # "ok" THEN polygon_len
           ELSE IF polygon_len.value < 0 THEN Panic("capacity overflow")
           ELSE Only({ IF polygons.kind # "ok" THEN polygons
                       ELSE Ok([variant |-> "MultiPolygon", polygons |-> polygons.value],
                               polygons.pos, polygons.ub)
                       : polygons \in {polys_decode(bytes, polygon_len.pos, e, borrow, base,
                                                    polygon_len.value,
                                                    Ok(<<>>, polygon_len.pos, FALSE))} })
           : polygon_len \in {usize_decode(bytes, pos, e)} })

\* a decoder that takes every discriminant but 0 for a multi-polygon
EncodableGeometry_decode_lenient(bytes, pos, e, borrow, base) ==
    Only({ IF discriminant.kind # "ok" THEN discriminant
           ELSE IF discriminant.value = 0
           THEN polygon_arm(bytes, discriminant.pos, e, borrow, base)
           ELSE multi_polygon_arm(bytes, discriminant.pos, e, borrow, base)
           : discriminant \in {usize_decode(bytes, pos, e)} })

\* impl Decode / BorrowDecode for EncodableGeometry: match variant { 0 => a
\* polygon, 1 => a multi-polygon, _ => panic }
EncodableGeometry_decode(bytes, pos, e, borrow, base) ==
    Only({ IF discriminant.kind # "ok" THEN discriminant
           ELSE IF discriminant.value = 0
           THEN polygon_arm(bytes, discriminant.pos, e, borrow, base)
           ELSE IF discriminant.value = 1
           THEN multi_polygon_arm(bytes, discriminant.pos, e, borrow, base)
           ELSE Panic("Unsupported geometry variant.")
           : discriminant \in {usize_decode(bytes, pos, e)} })

\* the bytes of a string whose length is read: they must be there and be
\* UTF-8 (every byte the model writes below 128 is, every byte above is not)
str_bytes(bytes, pos, len) ==
    IF len < 0 THEN Panic("capacity overflow")
    ELSE IF ~HasBytes(bytes, pos, len) THEN Err("UnexpectedEnd")
    ELSE IF \E i \in (pos + 1) .. (pos + len) : bytes[i] >= 128 THEN Err("Utf8")
    ELSE Ok(SubSeq(bytes, pos + 1, pos + len), pos + len, FALSE)

\* String::decode: the length, then that many bytes
String_decode(bytes, pos, e) ==
    Only({ IF len.kind # "ok" THEN len ELSE str_bytes(bytes, len.pos, len.value)
           : len \in {usize_decode(bytes, pos, e)} })

\* impl Decode / BorrowDecode for EncodableString: the string as it was written
EncodableString_decode(bytes, pos, e) == String_decode(bytes, pos, e)

\* the fields of an OsmTimezone after its id
OsmTimezone_fields(bytes, id, e, borrow, base) ==
    Only({ IF identifier.kind # "ok" THEN identifier
           ELSE Only({ IF geometry.kind # "ok" THEN geometry
                       ELSE Ok([id |-> id.value, identifier |-> identifier.value,
                                geometry |-> geometry.value],
                               geometry.pos, geometry.ub)
                       : geometry \in {EncodableGeometry_decode(bytes, identifier.pos, e,
                                                                borrow, base)} })
           : identifier \in {EncodableString_decode(bytes, id.pos, e)} })

\* impl Decode / BorrowDecode for OsmTimezone: id, identifier, geometry
OsmTimezone_decode(bytes, pos, e, borrow, base) ==
    Only({ IF id.kind # "ok" THEN id ELSE OsmTimezone_fields(bytes, id, e, borrow, base)
           : id \in {usize_decode(bytes, pos, e)} })

RECURSIVE items_decode(_, _, _, _, _, _, _)
\* the loop of Vec::decode: n more items after those of acc
items_decode(bytes, pos, e, borrow, base, n, acc) ==
    IF n = 0 THEN acc
    ELSE Only({ IF item.kind # "ok"
                THEN Unwind(item, borrow,
                            \E k \in 1 .. Len(acc.value) : GeometryHolds(acc.value[k].geometry))
                ELSE items_decode(bytes, item.pos, e, borrow, base, n - 1,
                                  Ok(Append(acc.value, item.value), item.pos, acc.ub \/ item.ub))
                : item \in {OsmTimezone_decode(bytes, pos, e, borrow, base)} })

\* derive(Decode) for ConcreteVec: Vec::decode, the length (Vec::with_capacity
\* of it), then the items
ConcreteVec_decode(bytes, pos, e, borrow, base) ==
    Only({ IF len.kind # "ok" THEN len
           ELSE IF len.value < 0 THEN Panic("capacity overflow")
           ELSE items_decode(bytes, len.pos, e, borrow, base, len.value, Ok(<<>>, len.pos, FALSE))
           : len \in {usize_decode(bytes, pos, e)} })

\* len ids read from whole bytes at pos
IdsAt(bytes, pos, len, e) ==
    [k \in 1 .. len |->
        UnsignedFromBytes(SubSeq(bytes, pos + (k - 1) * IdSize + 1, pos + k * IdSize), e)]

\* impl Decode for EncodableIds (borrow = FALSE): the length, then Id::decode
\* len times; impl BorrowDecode (borrow = TRUE): take_bytes(len *
\* size_of::<Id>()), then Vec::from_raw_parts with no check of the address
EncodableIds_decode(bytes, pos, e, borrow, base) ==
    Only({ IF len.kind # "ok" THEN len
           ELSE IF len.value < 0
           THEN IF borrow THEN Err("UnexpectedEnd") ELSE Panic("capacity overflow")
           ELSE IF ~HasItems(bytes, len.pos, len.value, IdSize)
           THEN Err("UnexpectedEnd")
           ELSE Ok(IdsAt(bytes, len.pos, len.value, e), len.pos + len.value * IdSize,
                   borrow /\ len.value > 0 /\ (base + len.pos) % IdAlign # 0)
           : len \in {usize_decode(bytes, pos, e)} })

\* RoundDegree::decode: a signed word of two bytes
RoundDegree_decode(bytes, pos, e) ==
    IF ~HasBytes(bytes, pos, RoundDegreeSize)
    THEN Err("UnexpectedEnd")
    ELSE Only({ Ok((IF s[2] >= 128 THEN s[2] - 256 ELSE s[2]) * 256 + s[1],
                   pos + RoundDegreeSize, FALSE)
                : s \in {Significance(SubSeq(bytes, pos + 1, pos + RoundDegreeSize), e)} })

\* one entry of the map: the key's x and y, then the ids
entry_decode(bytes, pos, e, borrow, base) ==
    Only({ IF x.kind # "ok" THEN x
           ELSE Only({ IF y.kind # "ok" THEN y
                       ELSE Only({ IF ids.kind # "ok" THEN ids
                                   ELSE Ok([key |-> <<x.value, y.value>>, ids |-> ids.value],
                                           ids.pos, ids.ub)
                                   : ids \in {EncodableIds_decode(bytes, y.pos, e, borrow, base)} })
                       : y \in {RoundDegree_decode(bytes, x.pos, e)} })
           : x \in {RoundDegree_decode(bytes, pos, e)} })

RECURSIVE entries_decode(_, _, _, _, _, _, _)
\* the loop of HashMap::decode: n more entries after those of acc
entries_decode(bytes, pos, e, borrow, base, n, acc) ==
    IF n = 0 THEN acc
    ELSE Only({ IF entry.kind # "ok"
                THEN Unwind(entry, borrow, \E k \in 1 .. Len(acc.value) : acc.value[k].ids # <<>>)
                ELSE entries_decode(bytes, entry.pos, e, borrow, base, n - 1,
                                    Ok(Append(acc.value, entry.value), entry.pos,
                                       acc.ub \/ entry.ub))
                : entry \in {entry_decode(bytes, pos, e, borrow, base)} })

\* HashMap<RoundLngLat, EncodableIds>::decode / borrow_decode: the length
\* (HashMap::with_capacity of it), then the entries
HashMap_decode(bytes, pos, e, borrow, base) ==
    Only({ IF len.kind # "ok" THEN len
           ELSE IF len.value < 0 THEN Panic("capacity overflow")
           ELSE entries_decode(bytes, len.pos, e, borrow, base, len.value, Ok(<<>>, len.pos, FALSE))
           : len \in {usize_decode(bytes, pos, e)} })

(***************************************************************************)
(* The codec's inputs and its state machine: a value is encoded on the     *)
(* build machine, the bytes are embedded in the executable at some address,*)
(* and decode_binary_data decodes them on the machine that runs it.        *)
(***************************************************************************)

\* the longest item vector given to the encoder
MaxItems == 2

\* "UTC"
UTC == <<85, 84, 67>>

\* "Zulu", a string whose length is a multiple of the alignment
Zulu == <<90, 117, 108, 117>>

Ring == << <<-3, -3>>, <<2, -3>>, <<2, 2>>, <<-3, -3>> >>

Hole == << <<0, 0>>, <<1, 0>>, <<0, 1>>, <<0, 0>> >>

Polygon(exterior, interiors) == [exterior |-> exterior, interiors |-> interiors]

GeometryPolygon(polygon) == [variant |-> "Polygon", polygons |-> <<polygon>>]

GeometryMultiPolygon(polygons) == [variant |-> "MultiPolygon", polygons |-> polygons]

CodecGeometries ==
    { GeometryPolygon(Polygon(Ring, <<>>)),
      GeometryPolygon(Polygon(Ring, <<Hole>>)),
      GeometryPolygon(Polygon(<<>>, <<>>)),
      GeometryMultiPolygon(<<>>),
      GeometryMultiPolygon(<<Polygon(Ring, <<>>), Polygon(Hole, <<>>)>>) }

\* identifier and geometry of the features the item vectors are made from
CodecFeatures ==
    {UTC, Zulu} \X { GeometryPolygon(Polygon(Ring, <<Hole>>)),
                     GeometryMultiPolygon(<<Polygon(Hole, <<>>)>>) }

\* ConcreteVec::from with OsmTimezone::from: the k-th feature gets the id k - 1
OsmTimezones(fc) ==
    [k \in 1 .. Len(fc) |-> [id |-> k - 1, identifier |-> fc[k][1], geometry |-> fc[k][2]]]

CodecItemVectors == { OsmTimezones(fc) : fc \in SeqsUpTo(CodecFeatures, MaxItems) }

CodecIdLists == { <<>>, <<0>>, <<0, 1>>, <<1, 0, 2>> }

\* an entry of the lookup table: a cell and its ids
Entry(x, y, ids) == [key |-> <<x, y>>, ids |-> ids]

\* lookup tables in some iteration order: cells with no, one and several ids
CodecLookups ==
    { <<>>,
      <<Entry(0, 0, <<0>>)>>,
      <<Entry(-1, 0, <<>>), Entry(0, -2, <<0, 1>>)>>,
      <<Entry(1, -1, <<1, 0, 2>>), Entry(-2, 1, <<>>), Entry(0, 0, <<2>>)>> }

Payloads == {"items", "geometry", "ids", "lookup"}

PayloadValues(kind) ==
    CASE kind = "items" -> CodecItemVectors
      [] kind = "geometry" -> CodecGeometries
      [] kind = "ids" -> CodecIdLists
      [] kind = "lookup" -> CodecLookups

\* bincode::encode_to_vec(value, get_global_bincode_config())
encode_to_vec(kind, v, e) ==
    CASE kind = "items" -> ConcreteVec_encode(v, e)
      [] kind = "geometry" -> EncodableGeometry_encode(v, e)
      [] kind = "ids" -> EncodableIds_encode(v, e)
      [] kind = "lookup" -> HashMap_encode(v, e)

\* bincode::decode_from_slice (borrow = FALSE) and borrow_decode_from_slice
\* (borrow = TRUE) with get_global_bincode_config()
decode_from_slice(kind, data, e, borrow, base) ==
    CASE kind = "items" -> ConcreteVec_decode(data, 0, e, borrow, base)
      [] kind = "geometry" -> EncodableGeometry_decode(data, 0, e, borrow, base)
      [] kind = "ids" -> EncodableIds_decode(data, 0, e, borrow, base)
      [] kind = "lookup" -> HashMap_decode(data, 0, e, borrow, base)

\* decode_binary_data: the decoded value, or the panic of expect on a
\* DecodeError.  A Vec built over misaligned bytes is undefined behaviour: the
\* reads go through as on an aligned address, or the process faults.  So is
\* the drop of a Vec built over the input's bytes: the failure comes through,
\* or the process faults in the allocator.
decode_binary_data(kind, data, e, borrow, base) ==
    UNION { IF r.kind = "ok"
            THEN {[kind |-> "returned", value |-> r.value, len |-> r.pos]}
                     \cup (IF r.ub THEN {[kind |-> "fault"]} ELSE {})
            ELSE (IF r.kind = "error"
                  THEN {[kind |-> "panic", message |-> "Could not decode binary data",
                         error |-> r.error]}
                  ELSE {[kind |-> "panic", message |-> r.message, error |-> "none"]})
                     \cup (IF r.freed THEN {[kind |-> "fault"]} ELSE {})
            : r \in {decode_from_slice(kind, data, e, borrow, base)} }

\* the addresses, modulo twice the alignment, the embedded bytes may start at
Bases == {0, 1, FloatAlign}

\* the bytes a fault in the artifact may put in place of a byte
TamperBytes == {2}

CodecInit ==
    /\ payload \in Payloads
    /\ original \in PayloadValues(payload)
    /\ buildEndian \in Endians
    /\ wire = None
    /\ tampered = FALSE
    /\ hostEndian = "none"
    /\ decodePath = "none"
    /\ address = 0
    /\ outcome = None
    /\ document = None
    /\ MainIdle
    /\ ThreadsIdle
    /\ SweepIdle
    /\ WebIdle
    /\ BuildIdle

\* generate_item_bincode / generate_lookup_bincode on the build machine
Encode ==
    /\ ~wire.some
    /\ wire' = Some(encode_to_vec(payload, original, get_global_bincode_config(buildEndian)))
    /\ UNCHANGED <<payload, original, buildEndian, tampered, hostEndian, decodePath, address, outcome, document>>
    /\ UNCHANGED offCodec

\* one byte of a geometry's bytes is replaced before they are decoded
Tamper ==
    /\ wire.some /\ ~tampered /\ ~outcome.some
    /\ payload = "geometry"
    /\ \E i \in 1 .. Len(wire.value) : \E b \in TamperBytes :
         /\ wire.value[i] # b
         /\ wire' = Some([wire.value EXCEPT ![i] = b])
    /\ tampered' = TRUE
    /\ UNCHANGED <<payload, original, buildEndian, hostEndian, decodePath, address, outcome, document>>
    /\ UNCHANGED offCodec

\* the input ends early: the artifact of a geometry or of a cell's ids is cut
\* off somewhere after its first word
CutOff ==
    /\ wire.some /\ ~tampered /\ ~outcome.some
    /\ payload \in {"geometry", "ids"}
    /\ \E n \in UsizeSize .. Len(wire.value) - 1 :
         wire' = Some(SubSeq(wire.value, 1, n))
    /\ tampered' = TRUE
    /\ UNCHANGED <<payload, original, buildEndian, hostEndian, decodePath, address, outcome, document>>
    /\ UNCHANGED offCodec

\* decode_binary_data on the running machine: its byte order, the decode
\* path the build selected, the address the bytes were embedded at
Decode ==
    /\ wire.some /\ ~outcome.some
    /\ \E e \in Endians : \E m \in {"owned", "borrow"} : \E a \in Bases :
         /\ hostEndian' = e
         /\ decodePath' = m
         /\ address' = a
         /\ \E o \in decode_binary_data(payload, wire.value, get_global_bincode_config(e),
                                        m = "borrow", a) :
              outcome' = Some(o)
    /\ UNCHANGED <<payload, original, buildEndian, wire, tampered, document>>
    /\ UNCHANGED offCodec

\* create_polygon_type: the exterior, then the interiors, as rings of positions
polygon_coordinates(polygon) ==
    <<[k \in 1 .. Len(polygon.exterior) |-> <<polygon.exterior[k][1], polygon.exterior[k][2]>>]>>
        \o [j \in 1 .. Len(polygon.interiors) |->
              [k \in 1 .. Len(polygon.interiors[j]) |->
                  <<polygon.interiors[j][k][1], polygon.interiors[j][k][2]>>]]

\* geojson::Geometry::from(&geo::Geometry): Value::Polygon / Value::MultiPolygon
geojson_Geometry_from(geometry) ==
    IF geometry.variant = "Polygon"
    THEN [type |-> "Polygon", coordinates |-> polygon_coordinates(geometry.polygons[1])]
    ELSE [type |-> "MultiPolygon",
          coordinates |-> [i \in 1 .. Len(geometry.polygons) |->
                              polygon_coordinates(geometry.polygons[i])]]

\* HasProperties::properties of OsmTimezone: the identifier alone
properties(item) == [identifier |-> item.identifier]

\* ToGeoJsonFeature::to_feature
to_feature(item) ==
    [properties |-> Some(properties(item)),
     geometry |-> Some(geojson_Geometry_from(item.geometry))]

\* fault seed: the features are collected last item first
to_feature_collection_reversed(items) ==
    [features |-> [k \in 1 .. Len(items) |-> to_feature(items[Len(items) + 1 - k])],
     bbox |-> None,
     foreign_members |-> None]

\* ToGeoJsonFeatureCollection::to_feature_collection
to_feature_collection(items) ==
    [features |-> [k \in 1 .. Len(items) |-> to_feature(items[k])],
     bbox |-> None,
     foreign_members |-> None]

\* ToGeoJson::to_geojson
to_geojson(items) == [variant |-> "FeatureCollection", value |-> to_feature_collection(items)]

\* GeoJson::to_json_value: the members the document has
to_json_value(geojson) ==
    [type |-> geojson.variant,
     features |-> [k \in 1 .. Len(geojson.value.features) |->
                    [type |-> "Feature",
                     geometry |-> geojson.value.features[k].geometry.value,
                     properties |-> geojson.value.features[k].properties.value]]]

\* memory_data_to_geojson on the item vector the decoder returned
ToGeoJson ==
    /\ payload = "items"
    /\ outcome.some /\ outcome.value.kind = "returned"
    /\ ~document.some
    /\ document' = Some(to_json_value(to_geojson(outcome.value.value)))
    /\ UNCHANGED <<payload, original, buildEndian, wire, tampered, hostEndian, decodePath,
                   address, outcome>>
    /\ UNCHANGED offCodec

CodecNext ==
    \/ Encode
    \/ Tamper
    \/ CutOff
    \/ Decode
    \/ ToGeoJson

CodecSpec == CodecInit /\ [][CodecNext]_vars

(***************************************************************************)
(* Concurrent first callers (rtz/src/geo/tz/osm.rs, admin/osm.rs).         *)
(*                                                                         *)
(* Every thread runs one lookup: get_cache() / get_mem_lookup(), then, if  *)
(* the cell has candidates, get_timezones() / get_mem_items().  Each getter*)
(* is OnceLock::get_or_init, in the steps of std's implementation: the     *)
(* check of the completed flag, Once::call_once_force (one caller runs the *)
(* closure, the others block until it is done; a panic of the closure      *)
(* leaves the guard to the next caller), the write of the value into the   *)
(* slot, the release of the completed flag.  TIMEZONES and CACHE are the   *)
(* slots.                                                                  *)
(***************************************************************************)

\* the number of threads
MaxThreads == 2

Threads == 1 .. MaxThreads

Guards == {"CACHE", "TIMEZONES"}

\* the feature collections the artifacts of the threaded runs are built from
ThreadCorpora == { <<Unit>>, <<World, Unit>>, Copies(Unit, TIMEZONE_LIST_LENGTH + 1) }

\* the value slot of a guard
Slot(g) == IF g = "CACHE" THEN CACHE ELSE TIMEZONES

\* a decoder that makes a value of whatever bytes it is given
DecodeNeverFails(artifact) == FALSE

\* bincode::decode_from_slice returns a DecodeError for the artifact
DecodeFails(artifact) == artifact \in corrupt

\* the closure of a guard panics: expect / unwrap on a DecodeError, or the
\* fixed-length conversion of a cell's ids
InitPanics(g) ==
    IF g = "CACHE"
    THEN DecodeFails("lookup") \/ CacheInitPanics(variant, lookupBin.value)
    ELSE DecodeFails("items")

\* the value the closure of a guard returns
InitValue(g) ==
    IF g = "CACHE"
    THEN CacheInitValue(variant, lookupBin.value)
    ELSE ItemsInitValue(itemsBin.value)

\* a Once that lets a caller in while another runs the closure
MayRunUnlocked(state) == state # "complete"

\* Once::call: the caller that finds the guard incomplete (or poisoned by a
\* panic) runs the closure
MayRun(state) == state = "incomplete"

ThreadsInit ==
    /\ variant \in Variants
    /\ features \in ThreadCorpora
    /\ itemsBin = Some(get_items_from_features(features))
    /\ lookupBin = Some(BuildLookup(variant, get_items_from_features(features)))
    /\ TIMEZONES = None
    /\ CACHE = None
    /\ pc = "idle"
    /\ q = NoQuery
    /\ path = "none"
    /\ result = <<>>
    /\ selfContained \in BOOLEAN
    /\ corrupt \in IF selfContained THEN {{}, {"items"}, {"lookup"}} ELSE {{}}
    /\ tstack = [t \in Threads |-> <<>>]
    /\ once = [g \in Guards |-> "incomplete"]
    /\ inits = [g \in Guards |-> 0]
    /\ tpc = [t \in Threads |-> "idle"]
    /\ tguard = [t \in Threads |-> "CACHE"]
    /\ tref = [t \in Threads |-> [g \in Guards |-> None]]
    /\ CodecIdle
    /\ SweepIdle
    /\ WebIdle
    /\ BuildIdle

\* fault seed: each closure asks for the other guard's value
NeedsEachOther(g) == IF g = "CACHE" THEN "TIMEZONES" ELSE "CACHE"

\* the guard whose value the closure of g asks for: without the embedded
\* artifacts the table is built from get_timezones() / get_items(); the
\* closure of the items asks for no guard
Needs(g) == IF g = "CACHE" /\ ~selfContained THEN "TIMEZONES" ELSE "none"

\* the caller of get_or_init(g) has its reference.  Inside a closure it goes
\* on with the closure.  Otherwise: after the table, either the cell is empty
\* and the lookup returns, or the items are fetched; after the items the
\* lookup returns
GotRef(t, g) ==
    /\ tref' = [tref EXCEPT ![t][g] = Slot(g)]
    /\ IF tstack[t] # <<>>
       THEN /\ tpc' = [tpc EXCEPT ![t] = "init"]
            /\ tguard' = [tguard EXCEPT ![t] = tstack[t][Len(tstack[t])]]
            /\ tstack' = [tstack EXCEPT ![t] = SubSeq(@, 1, Len(@) - 1)]
       ELSE /\ UNCHANGED tstack
            /\ IF g = "CACHE"
               THEN \/ tpc' = [tpc EXCEPT ![t] = "done"] /\ UNCHANGED tguard
                    \/ /\ tpc' = [tpc EXCEPT ![t] = "check"]
                       /\ tguard' = [tguard EXCEPT ![t] = "TIMEZONES"]
               ELSE tpc' = [tpc EXCEPT ![t] = "done"] /\ UNCHANGED tguard

\* a thread starts a lookup
Call ==
    \E t \in Threads :
        /\ tpc[t] = "idle"
        /\ tpc' = [tpc EXCEPT ![t] = "check"]
        /\ UNCHANGED <<TIMEZONES, CACHE, corrupt, once, inits, tguard, tref, selfContained, tstack>>
        /\ UNCHANGED offThreads

\* OnceLock::get: the fast path when the guard is completed
Check ==
    \E t \in Threads :
        /\ tpc[t] = "check"
        /\ IF once[tguard[t]] = "complete"
           THEN GotRef(t, tguard[t])
           ELSE tpc' = [tpc EXCEPT ![t] = "enter"] /\ UNCHANGED <<tguard, tref, tstack>>
        /\ UNCHANGED <<TIMEZONES, CACHE, corrupt, once, inits, selfContained>>
        /\ UNCHANGED offThreads

\* Once::call_once_force: run the closure, or return once another caller has
\* completed the guard; blocked while a caller runs the closure
Enter ==
    \E t \in Threads :
        /\ tpc[t] = "enter"
        /\ \/ /\ MayRun(once[tguard[t]])
              /\ once' = [once EXCEPT ![tguard[t]] = "running"]
              /\ tpc' = [tpc EXCEPT ![t] = "init"]
              /\ UNCHANGED <<tguard, tref, tstack>>
           \/ /\ once[tguard[t]] = "complete"
              /\ GotRef(t, tguard[t])
              /\ UNCHANGED once
        /\ UNCHANGED <<TIMEZONES, CACHE, corrupt, inits, selfContained>>
        /\ UNCHANGED offThreads

\* the closure: it first calls the getter of the guard it needs; it panics,
\* the panic unwinds into the caller through every closure the caller is
\* inside of and leaves their guards to the next caller; or its value is
\* written into the slot
RunInit ==
    \E t \in Threads :
        /\ tpc[t] = "init"
        /\ IF Needs(tguard[t]) # "none" /\ ~tref[t][Needs(tguard[t])].some
           THEN /\ tstack' = [tstack EXCEPT ![t] = Append(@, tguard[t])]
                /\ tguard' = [tguard EXCEPT ![t] = Needs(tguard[t])]
                /\ tpc' = [tpc EXCEPT ![t] = "check"]
                /\ UNCHANGED <<TIMEZONES, CACHE, inits, once>>
           ELSE IF InitPanics(tguard[t])
           THEN /\ once' = [g \in Guards |->
                               IF g = tguard[t] \/ \E k \in 1 .. Len(tstack[t]) : tstack[t][k] = g
                               THEN "incomplete" ELSE once[g]]
                /\ tpc' = [tpc EXCEPT ![t] = "panicked"]
                /\ tstack' = [tstack EXCEPT ![t] = <<>>]
                /\ UNCHANGED <<TIMEZONES, CACHE, inits, tguard>>
           ELSE /\ IF tguard[t] = "CACHE"
                   THEN CACHE' = Some(InitValue("CACHE")) /\ UNCHANGED TIMEZONES
                   ELSE TIMEZONES' = Some(InitValue("TIMEZONES")) /\ UNCHANGED CACHE
                /\ inits' = [inits EXCEPT ![tguard[t]] = @ + 1]
                /\ tpc' = [tpc EXCEPT ![t] = "publish"]
                /\ UNCHANGED <<once, tguard, tstack>>
        /\ UNCHANGED <<corrupt, tref, selfContained>>
        /\ UNCHANGED offThreads

\* the guard is completed and the caller takes its reference
Publish ==
    \E t \in Threads :
        /\ tpc[t] = "publish"
        /\ once' = [once EXCEPT ![tguard[t]] = "complete"]
        /\ GotRef(t, tguard[t])
        /\ UNCHANGED <<TIMEZONES, CACHE, corrupt, inits, selfContained>>
        /\ UNCHANGED offThreads

ThreadsNext ==
    \/ Call
    \/ Check
    \/ Enter
    \/ RunInit
    \/ Publish

ThreadsSpec == ThreadsInit /\ [][ThreadsNext]_vars

\* the threads under a scheduler that lets every thread that can take a step
\* take it in the end
ThreadsFairSpec ==
    /\ ThreadsInit
    /\ [][ThreadsNext]_vars
    /\ WF_vars(Check)
    /\ WF_vars(Enter)
    /\ WF_vars(RunInit)
    /\ WF_vars(Publish)

(***************************************************************************)
(* The parallel sweep of get_lookup_from_geometries                        *)
(* (rtz-core/src/geo/shared.rs).                                           *)
(*                                                                         *)
(* (-180..180).into_par_iter().for_each(|x| ...) hands every column x to a *)
(* task of the thread pool; at most MaxThreads tasks run at a time, in any *)
(* order and interleaved in any way.  A task goes through its rows; the    *)
(* list of one cell is a local of the task, so a row is one step: collect  *)
(* the ids, insert them into the shared map.  When every task is done the  *)
(* map is drained into the HashMap that is returned.                       *)
(***************************************************************************)

\* the feature collections the sweep is run on
SweepCorpora == { <<>>, <<Unit, World>>, Copies(World, MaxFeatures) \o <<OffGrid>> }

\* `intersected` of a cell as it is inserted: g.id() as Id, in push order
CellIds(items, x, y) ==
    LET ids == Intersected(items, x, y)
    IN  [k \in 1 .. Len(ids) |-> AsId(ids[k])]

\* fault seed: the key's components are exchanged on insertion
InsertTransposed(m, key, value) ==
    [x \in DOMAIN m \cup {key[2]} |->
        [y \in (IF x \in DOMAIN m THEN DOMAIN m[x] ELSE {})
                  \cup (IF x = key[2] THEN {key[1]} ELSE {}) |->
            IF x = key[2] /\ y = key[1] THEN value ELSE m[x][y]]]

\* CHashMap::insert(key, value): the entry of key is value, whatever it was
Insert(m, key, value) ==
    [x \in DOMAIN m \cup {key[1]} |->
        [y \in (IF x \in DOMAIN m THEN DOMAIN m[x] ELSE {})
                  \cup (IF x = key[1] THEN {key[2]} ELSE {}) |->
            IF x = key[1] /\ y = key[2] THEN value ELSE m[x][y]]]

\* EncodableIds(value): the newtype around the list
EncodableIds(value) == value

SweepInit ==
    /\ swept \in { get_items_from_features(fc) : fc \in SweepCorpora }
    /\ todo = Lngs
    /\ running = <<>>
    /\ map = <<>>
    /\ cache = None
    /\ MainIdle
    /\ CodecIdle
    /\ ThreadsIdle
    /\ WebIdle
    /\ BuildIdle

\* a thread of the pool starts the task of a column: `for y in -90..90`
StartTask ==
    /\ Cardinality(DOMAIN running) < MaxThreads
    /\ \E x \in todo :
         /\ todo' = todo \ {x}
         /\ running' = [c \in DOMAIN running \cup {x} |->
                            IF c = x THEN -MaxLat ELSE running[c]]
    /\ UNCHANGED <<swept, map, cache>>
    /\ UNCHANGED offSweep

\* one row of a task: the cell's list, then map.insert((x, y), intersected);
\* after the last row the task is over
SweepCell ==
    /\ \E x \in DOMAIN running :
         LET y == running[x]
         IN  /\ map' = Insert(map, <<AsI16(x), AsI16(y)>>, CellIds(swept, x, y))
             /\ running' = IF y + 1 < MaxLat
                            THEN [running EXCEPT ![x] = y + 1]
                            ELSE [c \in DOMAIN running \ {x} |-> running[c]]
    /\ UNCHANGED <<swept, todo, cache>>
    /\ UNCHANGED offSweep

\* for_each has returned: `for (key, value) in map.into_iter()` fills the
\* HashMap that is returned
Flatten ==
    /\ todo = {} /\ DOMAIN running = {}
    /\ ~cache.some
    /\ cache' = Some([x \in DOMAIN map |-> [y \in DOMAIN map[x] |-> EncodableIds(map[x][y])]])
    /\ UNCHANGED <<swept, todo, running, map>>
    /\ UNCHANGED offSweep

SweepNext ==
    \/ StartTask
    \/ SweepCell
    \/ Flatten

SweepSpec == SweepInit /\ [][SweepNext]_vars

(***************************************************************************)
(* The web server (rtz/src/web).                                           *)
(*                                                                         *)
(* A request names a lookup endpoint and a point and may carry an          *)
(* If-Modified-Since header.  Its handler runs the lookup of the           *)
(* endpoint's dataset on the process-wide statics and answers with a       *)
(* LookupResponse, which respond_to turns into the HTTP response.  A panic *)
(* of the handler is caught by the telemetry layer and answered with 500.  *)
(* The statics of the datasets are disjoint: a behaviour follows the       *)
(* requests to one dataset's endpoint.                                     *)
(***************************************************************************)

\* a header the message does not have
Absent == [date |-> -1, zone |-> "absent"]

\* the extractor's stand-in for a request without If-Modified-Since
NONE == [date |-> -1, zone |-> "NONE"]

\* the modification times the executable's file may have
ExeTimes == { [secs |-> 1, nanos |-> 5], [secs |-> 2, nanos |-> 0] }

\* DateTime::<Utc>::to_rfc2822: the date to the second, in the zone +0000
to_rfc2822(t) == [date |-> t.secs, zone |-> "+0000"]

\* .replace("+0000", "GMT")
replace_zone(text) == [date |-> text.date, zone |-> IF text.zone = "+0000" THEN "GMT" ELSE text.zone]

\* the closure of LAST_MODIFIED_TIME.get_or_init
LastModifiedInit(modified) == replace_zone(to_rfc2822(modified))

\* a date no build of this executable has
StaleDate == [date |-> 0, zone |-> "GMT"]

\* IfModifiedSince::from_request: the header's text, "NONE" without one
IfModifiedSince(header) == IF header = Absent THEN NONE ELSE header

\* the handler each dataset's routes end in
Endpoint(v) ==
    IF v = "ned" THEN "timezone_ned_v1"
    ELSE IF v = "osm" THEN "timezone_osm_v1"
    ELSE "admin_osm_v1"

\* fault seed: a handler that answers an empty result with NotFound
LookupResponseOrNotFound(tzs) ==
    IF tzs = <<>> THEN [kind |-> "NotFound", json |-> <<>>]
    ELSE [kind |-> "Ok", json |-> tzs]

\* Ok(LookupResponse::Ok(Json(tzs)))
LookupResponseOk(tzs) == [kind |-> "Ok", json |-> tzs]

\* LookupResponse::NotModified
NotModified == [kind |-> "NotModified", json |-> <<>>]

\* Responder::respond_to: the status and body of the variant, then the two
\* headers set to get_last_modified_time()
respond_to(r, modified) ==
    [status |-> IF r.kind = "Ok" THEN 200 ELSE IF r.kind = "NotModified" THEN 304 ELSE 404,
     body |-> IF r.kind = "Ok" THEN [kind |-> "array", elements |-> r.json]
              ELSE IF r.kind = "NotModified" THEN [kind |-> "none", elements |-> <<>>]
              ELSE [kind |-> "object", elements |-> <<>>],
     last_modified |-> modified,
     if_modified_since |-> modified]

\* with_catch_panic(true) and the panic mapper: 500 with a WebError
panic_mapper ==
    [status |-> 500,
     body |-> [kind |-> "object", elements |-> <<>>],
     last_modified |-> Absent,
     if_modified_since |-> Absent]

\* the feature collections the served artifacts are built from
WebCorpora == { <<>>, <<Unit>>, <<World, Unit>>, Copies(Unit, TIMEZONE_LIST_LENGTH + 1) }

WebInit ==
    /\ variant \in Variants
    /\ features \in WebCorpora
    /\ itemsBin = Some(get_items_from_features(features))
    /\ lookupBin = Some(BuildLookup(variant, get_items_from_features(features)))
    /\ TIMEZONES = None
    /\ CACHE = None
    /\ pc = "idle"
    /\ q = NoQuery
    /\ path = "none"
    /\ result = <<>>
    /\ exeModified \in ExeTimes
    /\ LAST_MODIFIED_TIME = None
    /\ request = None
    /\ response = None
    /\ seen = {}
    /\ CodecIdle
    /\ ThreadsIdle
    /\ SweepIdle
    /\ BuildIdle

\* a client sends GET /api/v1/<dataset>/<lng>/<lat>, with no If-Modified-Since,
\* with one a response carried, or with another date
Receive ==
    /\ ~request.some \/ response.some
    /\ \E p \in Probes : \E h \in {Absent, StaleDate} \cup seen :
         request' = Some([endpoint |-> Endpoint(variant), point |-> p, if_modified_since |-> h])
    /\ response' = None
    /\ pc' = "idle"
    /\ q' = NoQuery
    /\ path' = "none"
    /\ result' = <<>>
    /\ UNCHANGED <<variant, features, itemsBin, lookupBin, TIMEZONES, CACHE>>
    /\ UNCHANGED <<exeModified, LAST_MODIFIED_TIME, seen>>
    /\ UNCHANGED <<codecVars, threadVars, sweepVars, buildVars>>

\* the rest of a handler once it has not answered NotModified: the lookup,
\* Ok(Json(..)) of what it returned and respond_to, or the caught panic;
\* modified is LAST_MODIFIED_TIME as the handler has left it so far
LookupAndRespond(modified) ==
    /\ LookupCall(request.value.point)
    /\ IF pc' = "panicked"
       THEN /\ response' = Some(panic_mapper)
            /\ LAST_MODIFIED_TIME' = modified
            /\ UNCHANGED seen
       ELSE /\ LAST_MODIFIED_TIME' = get_or_init(modified, LastModifiedInit(exeModified))
            /\ response' = Some(respond_to(LookupResponseOk(result'), LAST_MODIFIED_TIME'.value))
            /\ seen' = seen \cup {LAST_MODIFIED_TIME'.value}

\* timezone_ned_v1(Path((lng, lat)), if_modified_since)
timezone_ned_v1 ==
    /\ request.some /\ ~response.some
    /\ request.value.endpoint = "timezone_ned_v1"
    /\ IF IfModifiedSince(request.value.if_modified_since)
            = get_or_init(LAST_MODIFIED_TIME, LastModifiedInit(exeModified)).value
       THEN /\ LAST_MODIFIED_TIME' = get_or_init(LAST_MODIFIED_TIME, LastModifiedInit(exeModified))
            /\ response' = Some(respond_to(NotModified, LAST_MODIFIED_TIME'.value))
            /\ seen' = seen \cup {LAST_MODIFIED_TIME'.value}
            /\ UNCHANGED mainVars
       ELSE LookupAndRespond(get_or_init(LAST_MODIFIED_TIME, LastModifiedInit(exeModified)))
    /\ UNCHANGED <<exeModified, request>>
    /\ UNCHANGED <<codecVars, threadVars, sweepVars, buildVars>>

\* timezone_osm_v1(Path((lng, lat)))
timezone_osm_v1 ==
    /\ request.some /\ ~response.some
    /\ request.value.endpoint = "timezone_osm_v1"
    /\ LookupAndRespond(LAST_MODIFIED_TIME)
    /\ UNCHANGED <<exeModified, request>>
    /\ UNCHANGED <<codecVars, threadVars, sweepVars, buildVars>>

\* admin_osm_v1(Path((lng, lat)))
admin_osm_v1 ==
    /\ request.some /\ ~response.some
    /\ request.value.endpoint = "admin_osm_v1"
    /\ LookupAndRespond(LAST_MODIFIED_TIME)
    /\ UNCHANGED <<exeModified, request>>
    /\ UNCHANGED <<codecVars, threadVars, sweepVars, buildVars>>

WebNext ==
    \/ Receive
    \/ timezone_ned_v1
    \/ timezone_osm_v1
    \/ admin_osm_v1

WebSpec == WebInit /\ [][WebNext]_vars

(***************************************************************************)
(* The build script: rtz-build's main for one corpus.  A file is held as   *)
(* the item vector or the cell table its bytes encode; every item keeps    *)
(* the variant of its geometry next to the geometry's extent.              *)
(***************************************************************************)

\* a GeoJSON feature: the variant of its geometry and the geometry's extent
Feature(v, extent) == [variant |-> v, extent |-> extent]

\* a line from (0, 1/2) to (2, 1/2)
Line == <<Deg(0), 1, Deg(2), 1>>

\* the corpora the build script is run on
BuildCorpora ==
    { <<Feature("Polygon", Unit)>>,
      <<Feature("Polygon", World), Feature("MultiPolygon", Unit)>>,
      <<Feature("Polygon", Unit), Feature("LineString", Line)>>,
      <<Feature("LineString", Line)>>,
      <<Feature("MultiPolygon", Neighbour), Feature("Polygon", Unit)>> }

\* ConcreteVec::from(features): try_into() makes a geo geometry of every
\* GeoJSON geometry, simplify_geometry keeps its variant
BuildItems(fc) ==
    [k \in 1 .. Len(fc) |->
        [id |-> ItemFrom(k - 1, fc[k].extent).id,
         geometry |-> ItemFrom(k - 1, fc[k].extent).geometry,
         variant |-> fc[k].variant]]

\* the files an earlier build left
EarlierItems == BuildItems(<<Feature("Polygon", Neighbour)>>)

\* bincode::encode_to_vec(items, ..) panics in the encoder of a geometry
encode_to_vec_panics(items) ==
    \E k \in 1 .. Len(items) : EncodableGeometry_encode_panics([variant |-> items[k].variant])

\* fault seed: the files are generated only when both are missing
exists_neither(items_file, lookup_file) == ~items_file.some /\ ~lookup_file.some

\* not (Path::new(items).exists() && Path::new(lookup).exists())
exists_not_both(items_file, lookup_file) == ~(items_file.some /\ lookup_file.some)

BuildInit ==
    /\ force_rebuild \in BOOLEAN
    /\ source \in BuildCorpora
    /\ timezone_bincode_destination \in {None, Some(EarlierItems)}
    /\ lookup_bincode_destination \in {None, Some(get_lookup_from_geometries(EarlierItems))}
    /\ bpc = "start"
    /\ MainIdle
    /\ CodecIdle
    /\ ThreadsIdle
    /\ SweepIdle
    /\ WebIdle

\* generate_osm_tz_bincodes up to generate_bincodes: without force-rebuild it
\* returns when both files exist
generate_osm_tz_bincodes ==
    /\ bpc = "start"
    /\ IF force_rebuild \/ exists_not_both(timezone_bincode_destination, lookup_bincode_destination)
       THEN bpc' = "items"
       ELSE bpc' = "skipped"
    /\ UNCHANGED <<force_rebuild, source, timezone_bincode_destination, lookup_bincode_destination>>
    /\ UNCHANGED offBuild

\* generate_item_bincode: the items, their bytes, then std::fs::write
generate_item_bincode ==
    /\ bpc = "items"
    /\ IF encode_to_vec_panics(BuildItems(source))
       THEN /\ bpc' = "panicked"
            /\ UNCHANGED timezone_bincode_destination
       ELSE /\ timezone_bincode_destination' = Some(BuildItems(source))
            /\ bpc' = "lookup"
    /\ UNCHANGED <<force_rebuild, source, lookup_bincode_destination>>
    /\ UNCHANGED offBuild

\* generate_lookup_bincode: std::fs::read of the items file, the sweep, then
\* std::fs::write
generate_lookup_bincode ==
    /\ bpc = "lookup"
    /\ IF ~timezone_bincode_destination.some
       THEN bpc' = "panicked" /\ UNCHANGED lookup_bincode_destination
       ELSE /\ lookup_bincode_destination' =
                  Some(get_lookup_from_geometries(timezone_bincode_destination.value))
            /\ bpc' = "done"
    /\ UNCHANGED <<force_rebuild, source, timezone_bincode_destination>>
    /\ UNCHANGED offBuild

\* cargo runs the build script again, on the corpus as it is then
Rebuild ==
    /\ bpc \in {"done", "skipped", "panicked"}
    /\ source' \in BuildCorpora
    /\ bpc' = "start"
    /\ UNCHANGED <<force_rebuild, timezone_bincode_destination, lookup_bincode_destination>>
    /\ UNCHANGED offBuild

BuildNext ==
    \/ generate_osm_tz_bincodes
    \/ generate_item_bincode
    \/ generate_lookup_bincode
    \/ Rebuild

BuildSpec == BuildInit /\ [][BuildNext]_vars

(***************************************************************************)
(* Properties.                                                             *)
(***************************************************************************)

\* the cells -MaxLng <= x < MaxLng, -MaxLat <= y < MaxLat, cut out of a larger box
CellDomain ==
    { c \in ((-MaxLng - 1) .. (MaxLng + 1)) \X ((-MaxLat - 1) .. (MaxLat + 1)) :
        /\ -MaxLng <= c[1] /\ c[1] < MaxLng
        /\ -MaxLat <= c[2] /\ c[2] < MaxLat }

\* the query points with -MaxLng <= lng < MaxLng and -MaxLat <= lat < MaxLat
InDomain(p) ==
    /\ Deg(-MaxLng) <= p[1] /\ p[1] < Deg(MaxLng)
    /\ Deg(-MaxLat) <= p[2] /\ p[2] < Deg(MaxLat)

Range(seq) == { seq[k] : k \in DOMAIN seq }

\* some point of the closed unit square of cell c lies in the closed rectangle g
Touches(g, c) ==
    \E px \in Deg(c[1]) .. Deg(c[1] + 1) : \E py \in Deg(c[2]) .. Deg(c[2] + 1) :
        g[1] <= px /\ px <= g[3] /\ g[2] <= py /\ py <= g[4]

C2_GridCoversEveryCell ==
    /\ lookupBin.some =>
         /\ Keys(lookupBin.value) = CellDomain
         /\ Cardinality(Keys(lookupBin.value)) = (2 * MaxLng) * (2 * MaxLat)
    /\ CACHE.some =>
         /\ Keys(CACHE.value) = CellDomain
         /\ Cardinality(Keys(CACHE.value)) = (2 * MaxLng) * (2 * MaxLat)

\* a loaded table with an empty cell and a non-empty one
C2_Witness ==
    /\ CACHE.some /\ variant = "generic"
    /\ \E c \in Keys(CACHE.value) : Get(CACHE.value, c) = <<>>
    /\ \E c \in Keys(CACHE.value) : Get(CACHE.value, c) # <<>>

C4_CellHoldsExactlyTheIntersectingItems ==
    lookupBin.some =>
        \A k \in 1 .. Len(itemsBin.value) : \A c \in CellDomain :
            itemsBin.value[k].id \in Range(Get(lookupBin.value, c))
                <=> Touches(itemsBin.value[k].geometry, c)

\* an item listed in a cell it only shares an edge or a corner with, and
\* missing from another cell
C4_Witness ==
    /\ lookupBin.some /\ Len(itemsBin.value) = 1
    /\ \E c \in CellDomain :
         /\ 0 \in Range(Get(lookupBin.value, c))
         /\ ~IntersectsInterior(itemsBin.value[1].geometry, CellRect(c[1], c[2]))
    /\ \E c \in CellDomain : 0 \notin Range(Get(lookupBin.value, c))

\* C5: the item vector built from N features has N items, the item at index k
\* carries id k and the k-th feature's geometry, on file and in memory.
C5_IdsAreVectorIndices ==
    /\ itemsBin.some =>
         /\ Len(itemsBin.value) = Len(features)
         /\ \A k \in 1 .. Len(features) :
              /\ itemsBin.value[k].id = k - 1
              /\ itemsBin.value[k].geometry = features[k]
    /\ TIMEZONES.some =>
         /\ Len(TIMEZONES.value) = Len(features)
         /\ \A k \in 1 .. Len(features) : TIMEZONES.value[k].id = k - 1

\* a loaded vector of two different items
C5_Witness ==
    /\ TIMEZONES.some /\ Len(TIMEZONES.value) = 2
    /\ TIMEZONES.value[1].geometry # TIMEZONES.value[2].geometry
    /\ TIMEZONES.value[2].id = 1

Abs(n) == IF n < 0 THEN -n ELSE n

\* the ids the loaded table holds for the query's cell, padding left out;
\* none when the table has no such key
LoadedCellIds ==
    IF HasKey(CACHE.value, QueryCell(q))
    THEN SelectSeq(Get(CACHE.value, QueryCell(q)), LAMBDA id : id # -1)
    ELSE <<>>

\* C6: a lookup leaves by the fast path exactly when the surface has the fast
\* path (get_timezones, get_timezone), the cell's candidate list has one entry
\* and |lng| < FastLng, |lat| < FastLat (179 and 89 in the source); it then
\* returns that candidate as it is; lookup, which has no fast path, returns
\* only items that contain the point.
C6_FastPathExactlyWhenLoneInteriorCandidate ==
    pc = "returned" =>
        /\ path = "fast" <=>
             /\ variant \in {"osm", "ned"}
             /\ Len(LoadedCellIds) = 1
             /\ Abs(q[1]) < Deg(FastLng) /\ Abs(q[2]) < Deg(FastLat)
        /\ path = "fast" => result = LoadedCellIds
        /\ variant = "generic" =>
             \A k \in 1 .. Len(result) : Contains(itemsBin.value[result[k] + 1].geometry, q)

\* the fast path returns a candidate that does not contain the point
C6_Witness ==
    /\ pc = "returned" /\ path = "fast" /\ Len(result) = 1
    /\ ~Contains(itemsBin.value[result[1] + 1].geometry, q)

\* C7: when the fast path is not taken, lookup and get_timezones return the
\* ids of the query's cell whose geometry contains the point, in the order of
\* the cell's list: nothing reordered, repeated or taken from another cell.
C7_FilterKeepsContainingCandidatesInOrder ==
    (pc = "returned" /\ path = "filter" /\ variant # "ned") =>
        result = SelectSeq(Get(lookupBin.value, QueryCell(q)),
                           LAMBDA id : Contains(itemsBin.value[id + 1].geometry, q))

\* a cell of several candidates of which a later one alone is returned
C7_Witness ==
    /\ pc = "returned" /\ path = "filter" /\ variant = "generic"
    /\ Len(Get(lookupBin.value, QueryCell(q))) >= 2
    /\ Len(result) = 1
    /\ result[1] # Get(lookupBin.value, QueryCell(q))[1]

\* the floored cell of p, before any cast, lies outside the grid
OutsideGrid(p) ==
    \/ p[1] \div Scale < -MaxLng \/ p[1] \div Scale >= MaxLng
    \/ p[2] \div Scale < -MaxLat \/ p[2] \div Scale >= MaxLat

PureLookup(v, itemsFile, lookupFile, p) ==
    LET table == CacheInitValue(v, lookupFile)
        items == ItemsInitValue(itemsFile)
    IN  IF ~HasKey(table, QueryCell(p)) THEN <<>>
        ELSE IdsOf(Answer(v, Suggestions(v, Get(table, QueryCell(p)), items), items, p).refs,
                   items)

\* C10: what a lookup returns is a function of its query point and the loaded
\* artifact: whichever guards were initialized before it and whichever
\* queries ran before it, the same point gets the same sequence.
C10_ResultDependsOnQueryAndArtifactOnly ==
    pc = "returned" => result = PureLookup(variant, itemsBin.value, lookupBin.value, q)

\* get_timezone answers from guards that an earlier call initialized
C10_Witness ==
    /\ pc = "returned" /\ variant = "ned" /\ result # <<>>
    /\ TIMEZONES.some /\ CACHE.some

\* C11 as stated: for every item vector, decoding the bytes produced by
\* encoding it (same byte order, owned decode or aligned bytes) returns the
\* same items: as many, in the same order, each with the same id, the same
\* identifier byte for byte and the same geometry.
C11_DecodeOfEncodeIsTheItemVector ==
    (/\ payload = "items" /\ outcome.some
     /\ hostEndian = buildEndian
     /\ (decodePath = "owned" \/ address % FloatAlign = 0)) =>
        /\ outcome.value.kind = "returned"
        /\ outcome.value.value = original

\* C12: for the item vector and for the grid table, under every interleaving
\* of concurrent first callers the value is written at most once, exactly
\* once when the guard is completed; every reference a caller holds is the
\* completed slot's value, the closure's whole value, and never an empty slot.
C12_InitializedExactlyOnce ==
    \A g \in Guards :
        /\ inits[g] <= 1
        /\ once[g] = "complete" => (inits[g] = 1 /\ Slot(g) = Some(InitValue(g)))
        /\ \A t \in Threads :
             tref[t][g].some => (once[g] = "complete" /\ tref[t][g] = Slot(g))
        /\ \A t \in Threads :
             (tpc[t] = "done" /\ tguard[t] = g) => tref[t][g].some

\* two callers raced for the table: one ran the closure, the other went
\* through call_once_force too, and both hold the same table
C12_Witness ==
    /\ inits["CACHE"] = 1
    /\ \A t \in Threads : tref[t]["CACHE"] = Some(InitValue("CACHE"))
    /\ \E t \in Threads : tpc[t] = "done" /\ tguard[t] = "TIMEZONES" /\ tref[t]["TIMEZONES"].some
    /\ \E t \in Threads : tpc[t] = "enter" /\ tguard[t] = "TIMEZONES"

\* C13: once the table is ready it stays ready, and once the table or the
\* item vector is in memory no step (lookup, lookup_slow,
\* get_lookup_suggestions, items, to_geojson, in any order) changes any cell's
\* id list or any item.
C13_ReadyStaysReadyAndUnchanged ==
    [][/\ CACHE.some => CACHE' = CACHE
       /\ TIMEZONES.some => TIMEZONES' = TIMEZONES]_vars

\* every kind of call has run against the ready table with items in memory
C13_Witness ==
    /\ CACHE.some /\ TIMEZONES.some /\ Len(TIMEZONES.value) = 2
    /\ pc = "answered" /\ path = "to_geojson" /\ result = <<0, 1>>

\* the artifact a guard's closure decodes
ArtifactOf(g) == IF g = "CACHE" THEN "lookup" ELSE "items"

\* C14: if decoding the artifact of a guard fails, the guard never becomes
\* ready and its slot stays empty, the caller that ran the closure is left
\* panicked (the guard is not left running), and no caller, concurrent or
\* later, gets a reference to a value or returns from a lookup that needed it.
C14_FailedDecodeNeverReady ==
    \A g \in Guards :
        ArtifactOf(g) \in corrupt =>
            /\ once[g] # "complete" /\ ~Slot(g).some /\ inits[g] = 0
            /\ once[g] = "running" => \E t \in Threads : tpc[t] = "init" /\ tguard[t] = g
            /\ \A t \in Threads :
                 /\ ~tref[t][g].some
                 /\ tguard[t] = g => tpc[t] \in {"idle", "check", "enter", "init", "panicked"}

\* the lookup artifact does not decode: the caller that ran the closure
\* panicked, and so did the caller that came after it
C14_Witness ==
    /\ "lookup" \in corrupt
    /\ \A t \in Threads : tpc[t] = "panicked" /\ tguard[t] = "CACHE"
    /\ once["CACHE"] = "incomplete" /\ ~CACHE.some

\* the discriminant word of the geometry bytes as the decoding machine reads it
Discriminant == UnsignedFromBytes(SubSeq(wire.value, 1, UsizeSize), hostEndian)

\* C15: decoding a geometry whose discriminant word is neither 0 nor 1 never
\* yields a geometry: the owned and the borrow decode both end in the panic
\* "Unsupported geometry variant.", which is not the failure of a truncated
\* input (a DecodeError under expect).
C15_UnknownDiscriminantPanics ==
    (payload = "geometry" /\ outcome.some /\ Discriminant \notin {0, 1}) =>
        /\ decodePath \in {"owned", "borrow"}
        /\ outcome.value.kind = "panic"
        /\ outcome.value.message = "Unsupported geometry variant."
        /\ outcome.value.error = "none"

\* the discriminant of a polygon became 2 and the borrow decode panicked
C15_Witness ==
    /\ payload = "geometry" /\ outcome.some /\ tampered
    /\ original.variant = "Polygon" /\ Discriminant = 2
    /\ decodePath = "borrow"
    /\ outcome.value.kind = "panic"

\* C16 as stated: decoding bytes written in the other byte order, or borrow
\* decoding bytes embedded at an address that is not a multiple of the
\* alignment of coordinate pairs and ids, is rejected with a fatal error and
\* yields no value.
C16_MismatchOrMisalignmentIsRejected ==
    (/\ outcome.some /\ ~tampered
     /\ \/ hostEndian # buildEndian
        \/ decodePath = "borrow" /\ address % FloatAlign # 0) =>
        outcome.value.kind = "panic"

\* whether a list of ids goes strictly upwards
StrictlyAscending(ids) == \A k \in 1 .. Len(ids) - 1 : ids[k] < ids[k + 1]

\* C17: whatever tasks have run so far and in whatever order, every list in
\* the shared map, and every list of the grid that is returned, is strictly
\* ascending by item id.
C17_CellListsStrictlyAscending ==
    /\ \A c \in Keys(map) : StrictlyAscending(Get(map, c))
    /\ cache.some => \A c \in Keys(cache.value) : StrictlyAscending(Get(cache.value, c))

\* a grid was returned in which a cell lists several items
C17_Witness ==
    /\ cache.some
    /\ Keys(cache.value) = CellDomain
    /\ \E c \in Keys(cache.value) : Len(Get(cache.value, c)) >= 2

C19_HeaderIsExeTimeAndRevalidationIs304 ==
    (response.some /\ response.value.status # 500) =>
        /\ response.value.last_modified = LastModifiedInit(exeModified)
        /\ response.value.if_modified_since = LastModifiedInit(exeModified)
        /\ request.value.if_modified_since \in seen => response.value.status = 304

\* whether the rings of a GeoJSON polygon are those of a polygon: its
\* exterior first, then its interiors in their order
RingsOf(rings, polygon) ==
    /\ Len(rings) = 1 + Len(polygon.interiors)
    /\ rings[1] = polygon.exterior
    /\ \A j \in 1 .. Len(polygon.interiors) : rings[j + 1] = polygon.interiors[j]

\* whether a GeoJSON geometry is that of an item
CarriesGeometry(g, geometry) ==
    /\ g.type = geometry.variant
    /\ IF geometry.variant = "Polygon"
       THEN RingsOf(g.coordinates, geometry.polygons[1])
       ELSE /\ Len(g.coordinates) = Len(geometry.polygons)
            /\ \A i \in 1 .. Len(geometry.polygons) :
                  RingsOf(g.coordinates[i], geometry.polygons[i])

\* C20: the step that produces the GeoJSON document leaves the item vector
\* as it was, and the document is a feature collection with one feature per
\* item, in the vector's order, the k-th feature carrying the k-th item's
\* geometry and its properties (the identifier).
C20_OneFeaturePerItemInOrder ==
    [][document' # document =>
         /\ outcome' = outcome
         /\ document'.value.type = "FeatureCollection"
         /\ Len(document'.value.features) = Len(outcome.value.value)
         /\ \A k \in 1 .. Len(outcome.value.value) :
               /\ document'.value.features[k].type = "Feature"
               /\ CarriesGeometry(document'.value.features[k].geometry,
                                   outcome.value.value[k].geometry)
               /\ document'.value.features[k].properties
                     = [identifier |-> outcome.value.value[k].identifier]]_vars

\* a document was made of two items with different geometries
C20_Witness ==
    /\ document.some
    /\ Len(document.value.features) = 2
    /\ document.value.features[1].geometry.type # document.value.features[2].geometry.type

\* C21: in every interleaving of the column tasks, a step that changes the
\* shared map adds exactly one key that was not there, the key of the row a
\* running task of that column is at, and leaves every other entry as it
\* was; and the mapping returned at the end is the one the sequential sweep
\* of the same items gives.
C21_EachKeyOnceAndSameAsSequential ==
    [][/\ map' # map =>
            \E c \in Keys(map') \ Keys(map) :
                /\ Keys(map') = Keys(map) \cup {c}
                /\ c[1] \in DOMAIN running /\ running[c[1]] = c[2]
                /\ \A d \in Keys(map) : Get(map', d) = Get(map, d)
       /\ cache' # cache =>
            /\ Keys(map) = CellDomain
            /\ cache'.value = get_lookup_from_geometries(swept)]_vars

\* the sweep is over and its cells do not all list the same items
C21_Witness ==
    /\ cache.some
    /\ \E c, d \in Keys(cache.value) : Get(cache.value, c) # Get(cache.value, d)

\* C22: an artifact as the encoder wrote it, decoded in the byte order it was
\* written in, gives on the borrow path what it gives on the owned path: a
\* returned value, the same value, the same number of bytes consumed.
C22_BorrowDecodeEqualsOwnedDecode ==
    (outcome.some /\ ~tampered /\ hostEndian = buildEndian) =>
        outcome.value \in decode_binary_data(payload, wire.value,
                                             get_global_bincode_config(hostEndian),
                                             FALSE, address)

\* the cell c is the unit square the point lies in: c <= p < c + 1 on both axes
InCell(c, p) ==
    /\ Deg(c[1]) <= p[1] /\ p[1] < Deg(c[1] + 1)
    /\ Deg(c[2]) <= p[2] /\ p[2] < Deg(c[2] + 1)

\* the cells around the sweep's domain, one ring beyond it
NearCells == ((-MaxLng - 1) .. MaxLng) \X ((-MaxLat - 1) .. MaxLat)

\* the coordinates whose floor is an i16
FitsI16(p) ==
    /\ Deg(I16Min) <= p[1] /\ p[1] < Deg(I16Max + 1)
    /\ Deg(I16Min) <= p[2] /\ p[2] < Deg(I16Max + 1)

\* what a lookup of the last query point returns if it goes by the cell c alone
AnswerFromCell(c) ==
    LET table == CacheInitValue(variant, lookupBin.value)
        items == ItemsInitValue(itemsBin.value)
    IN  IF ~HasKey(table, c) THEN <<>>
        ELSE IdsOf(Answer(variant, Suggestions(variant, Get(table, c), items), items, q).refs,
                   items)

\* C23 as stated: the cell a lookup consults is the unit square its query
\* point lies in, whatever the point.
C23_ConsultedCellHoldsThePoint ==
    pc = "returned" => InCell(QueryCell(q), q)

\* C23, amended: for a query point whose floored coordinates fit an i16, the
\* cell consulted is the one unit square with cx <= lng < cx + 1 and
\* cy <= lat < cy + 1 (rounding toward minus infinity, integers to themselves),
\* and the answer is that cell's.
C23_ConsultedCellHoldsThePointInI16 ==
    (pc = "returned" /\ FitsI16(q)) =>
        /\ \E c \in NearCells : InCell(c, q)
        /\ \A c \in NearCells :
              InCell(c, q) => /\ QueryCell(q) = c
                              /\ result = AnswerFromCell(c)

\* a point with a negative non-integer longitude got an answer that names an item
C23_Witness ==
    /\ pc = "returned"
    /\ q[1] = Deg(0) - 1
    /\ QueryCell(q)[1] = -1
    /\ result # <<>>

\* C24: under fair scheduling every lookup call comes to its end, concurrent
\* first calls included, and it returns when no closure panics; the only
\* closure a caller is ever inside of while it asks for another guard is the
\* table's, so the items are never initialized around the table.
C24_EveryCallReturns ==
    /\ [](\A t \in Threads : \A k \in 1 .. Len(tstack[t]) : tstack[t][k] = "CACHE")
    /\ \A t \in Threads :
          /\ tpc[t] = "check" ~> tpc[t] \in {"done", "panicked"}
          /\ (tpc[t] = "check" /\ \A g \in Guards : ~InitPanics(g)) ~> tpc[t] = "done"

\* one first caller is inside the table's closure initializing the items while
\* another first caller waits for the table
C24_Witness ==
    /\ ~selfContained
    /\ \E t, u \in Threads :
          /\ t # u
          /\ tstack[t] = <<"CACHE">> /\ tguard[t] = "TIMEZONES" /\ tpc[t] = "init"
          /\ tguard[u] = "CACHE" /\ tpc[u] = "enter"

\* the offset in the items artifact the k-th item is encoded at
ItemStart(items, k, e) ==
    UsizeSize + Len(Concat([j \in 1 .. k - 1 |-> OsmTimezone_encode(items[j], e)]))

\* the offset the data of the k-th item's string is encoded at: after the
\* item's id and the data's length
StringDataStart(items, k, e) == ItemStart(items, k, e) + UsizeSize + UsizeSize

\* the length written in front of the data that starts at the offset start
DeclaredLen(bytes, start, e) ==
    UnsignedFromBytes(SubSeq(bytes, start - UsizeSize + 1, start), e)

\* C25: the data written for a string is the string's bytes followed only by
\* zero bytes, its length is a multiple of the float alignment, and the field
\* encoded after it (the geometry) starts where the data ends, at an aligned
\* offset whenever the data started at one.
C25_PaddedStringKeepsAlignment ==
    (wire.some /\ payload = "items" /\ ~tampered) =>
        \A k \in 1 .. Len(original) :
            LET string == original[k].identifier
                start == StringDataStart(original, k, buildEndian)
                n == DeclaredLen(wire.value, start, buildEndian)
                next == EncodableGeometry_encode(original[k].geometry, buildEndian)
            IN  /\ n >= Len(string)
                /\ n % FloatAlign = 0
                /\ SubSeq(wire.value, start + 1, start + Len(string)) = string
                /\ \A i \in Len(string) + 1 .. n : wire.value[start + i] = 0
                /\ SubSeq(wire.value, start + n + 1, start + n + Len(next)) = next
                /\ start % FloatAlign = 0 => (start + n) % FloatAlign = 0

\* an items artifact with a string that needs padding and one whose length is
\* a multiple of the alignment already
C25_Witness ==
    /\ wire.some /\ payload = "items" /\ ~tampered
    /\ Len(original) = 2
    /\ original[1].identifier = UTC
    /\ original[2].identifier = Zulu

\* the bytes to decode are a proper prefix of the bytes the encoder wrote
Truncated ==
    /\ wire.some
    /\ Len(wire.value) < Len(encode_to_vec(payload, original, get_global_bincode_config(buildEndian)))

\* C26: decoding an input that ends before a declared ring length, interior
\* count, polygon count or id-list length is satisfied ends in the decode
\* error of an input that ended early, on the owned and on the borrow path (on
\* the machine that wrote the bytes, from an aligned address); no value comes
\* out of it.
C26_TruncatedInputIsADecodeError ==
    (/\ outcome.some /\ Truncated
     /\ hostEndian = buildEndian
     /\ address % FloatAlign = 0) =>
        /\ outcome.value.kind = "panic"
        /\ outcome.value.error = "UnexpectedEnd"

\* the variants EncodableGeometry has an encoding for
Polygonal(items) == \A k \in 1 .. Len(items) : items[k].variant \in {"Polygon", "MultiPolygon"}

\* C27: when a feature of the corpus has a geometry that is neither a polygon
\* nor a multi-polygon, generating the items artifact ends in a panic that
\* leaves both files as they were; no items file ever holds such a geometry.
C27_NonPolygonAbortsTheBuild ==
    /\ [](timezone_bincode_destination.some => Polygonal(timezone_bincode_destination.value))
    /\ [][(bpc = "items" /\ bpc' # "items" /\ ~Polygonal(BuildItems(source))) =>
            /\ bpc' = "panicked"
            /\ timezone_bincode_destination' = timezone_bincode_destination
            /\ lookup_bincode_destination' = lookup_bincode_destination]_vars

\* the build of a corpus with a line string panicked and made no items file
C27_Witness ==
    /\ bpc = "panicked"
    /\ \E k \in 1 .. Len(source) : source[k].variant = "LineString"
    /\ \E k \in 1 .. Len(source) : source[k].variant = "Polygon"
    /\ ~timezone_bincode_destination.some

\* C29: the build script goes on to generate the pair exactly when
\* force-rebuild is on or one of the two files is missing, and otherwise
\* returns; the files change only while it generates; the items file is
\* written from the corpus first, and the lookup file is then derived from
\* the items file as it stands, which that step leaves alone.
C29_RegeneratesIffForcedOrMissing ==
    [][/\ (bpc = "start" /\ bpc' # "start") =>
            /\ bpc' = "items" <=> (\/ force_rebuild
                                   \/ ~timezone_bincode_destination.some
                                   \/ ~lookup_bincode_destination.some)
            /\ bpc' = "skipped" <=> (/\ ~force_rebuild
                                     /\ timezone_bincode_destination.some
                                     /\ lookup_bincode_destination.some)
       /\ bpc \notin {"items", "lookup"} =>
            /\ timezone_bincode_destination' = timezone_bincode_destination
            /\ lookup_bincode_destination' = lookup_bincode_destination
       /\ (bpc = "items" /\ bpc' = "lookup") =>
            /\ timezone_bincode_destination' = Some(BuildItems(source))
            /\ lookup_bincode_destination' = lookup_bincode_destination
       /\ (bpc = "lookup" /\ bpc' # "lookup") =>
            /\ bpc' = "done"
            /\ timezone_bincode_destination = Some(BuildItems(source))
            /\ timezone_bincode_destination' = timezone_bincode_destination
            /\ lookup_bincode_destination' =
                  Some(get_lookup_from_geometries(timezone_bincode_destination.value))]_vars

\* a run without force-rebuild returned at once, on the pair an earlier run
\* of the script had generated
C29_Witness ==
    /\ bpc = "skipped" /\ ~force_rebuild
    /\ timezone_bincode_destination.some
    /\ timezone_bincode_destination.value # EarlierItems
    /\ lookup_bincode_destination =
          Some(get_lookup_from_geometries(timezone_bincode_destination.value))

\* the ids an in-memory array holds, the -1 padding skipped
Recovered(array) == SelectSeq(array, LAMBDA id : id # -1)

\* C28: once the grid is loaded into the fixed-length arrays, every cell's
\* array holds, the -1 padding skipped, exactly the ids of the cell's decoded
\* list in their order; a list longer than the array never gets loaded.
C28_LoadedArraysKeepEveryCandidate ==
    (CACHE.some /\ variant \in {"osm", "ned"}) =>
        \A c \in Keys(lookupBin.value) :
            /\ HasKey(CACHE.value, c)
            /\ Recovered(Get(CACHE.value, c)) = Get(lookupBin.value, c)

\* the borrow decoder, reading the bytes from offset 0, takes a coordinate run
\* or an id array that has elements at an offset that is not a multiple of
\* the element's alignment (FloatAlign for coordinates, IdAlign for ids)
RunOffAlignment(kind, bytes, e) == decode_from_slice(kind, bytes, e, TRUE, 0).ub

\* C30: in the items artifact every coordinate run, and in the lookup
\* artifact every id array, starts at an offset from the start of the
\* artifact that is a multiple of its elements' alignment.
C30_RunsStartAligned ==
    (wire.some /\ ~tampered /\ payload \in {"items", "lookup"}) =>
        /\ decode_from_slice(payload, wire.value, get_global_bincode_config(buildEndian),
                             TRUE, 0).kind = "ok"
        /\ ~RunOffAlignment(payload, wire.value, get_global_bincode_config(buildEndian))

\* an items artifact whose second item comes after a padded three-byte string,
\* an exterior and an interior ring
C30_Witness ==
    /\ wire.some /\ ~tampered /\ payload = "items"
    /\ Len(original) = 2
    /\ original[1].identifier = UTC
    /\ original[1].geometry.polygons[1].interiors # <<>>
    /\ original[2].identifier = UTC

====
